---- MODULE Spec2Model ----
(***************************************************************************)
(* A model of the two hand-written components of the repository:           *)
(*   - SasQueryParameters (sdk/tables/data-tables/src/sas):                *)
(*     constructor, ipRange getter, toString, tryAppendQueryParameter;     *)
(*   - getLongRunningPoller (sdk/loadtesting/load-testing-rest/src).       *)
(* and of three smaller pieces: a poller run to completion, the browser    *)
(* build of DefaultAzureCredential (sdk/identity/identity/src/credentials) *)
(* and the paged list of ApplyUpdateForResourceGroupImpl                   *)
(* (sdk/maintenance/arm-maintenance/src/operations).                       *)
(* A JavaScript string is a sequence of one-character strings, so that     *)
(* percent-encoding, joining and substring search are computed and not     *)
(* assumed.  A JavaScript value is a record with a tag.                    *)
(* The specifications share the variables: Spec (construction, toString,   *)
(* reads of ipRange over every options bag), SpecCaller (a caller that     *)
(* calls toString again and writes to the ranges it has read), SpecAliased *)
(* (a caller that writes to the range it passed in the options),           *)
(* SpecConcurrent (toString calls in progress at once, step by step),      *)
(* SpecLro (the dispatcher), SpecPoller (pollUntilDone on a poller),       *)
(* SpecCredential and SpecPaging.                                          *)
(***************************************************************************)
EXTENDS Integers, Sequences, FiniteSets

VARIABLES
    ctor,             \* the arguments of the constructor call, once made
    sas,              \* the SasQueryParameters object, once constructed
    heap,             \* the SasIPRange objects allocated so far
    ret,              \* the completion of the last operation
    outs,             \* the completions of the toString() calls so far
    frames,           \* the activation of each toString() call in progress
    initialResponse,  \* the response given to getLongRunningPoller
    calls,            \* the calls the last getLongRunningPoller made
    polling,          \* the run of pollUntilDone() on a poller, once started
    log,              \* the messages written to the credential logger
    pager             \* the iterators of a list() call and what they did

vars == <<ctor, sas, heap, ret, outs, frames, initialResponse, calls, polling, log, pager>>

(***************************************************************************)
(* Bounds of the model.                                                    *)
(***************************************************************************)
\* The most options one options bag defines.
MaxOptions == 2
\* The most times the ipRange getter is read by the caller.
MaxViews == 1
\* The most times toString() is called on the object.
MaxCalls == 2
\* The most callers that have a toString() call in progress at once.
MaxCallers == 2
\* The most status requests one pollUntilDone() sends.
MaxPolls == 3
\* The most messages kept in the credential logger.
MaxLog == 5
\* The most page iterators taken from one list() result.
MaxPageIterators == 1
\* The most calls on the iterators of one list() result that have not
\* settled.
MaxPending == 2

(***************************************************************************)
(* JavaScript values and completions.                                      *)
(***************************************************************************)
Undefined == [tag |-> "undefined"]

Str(chars) == [tag |-> "string", chars |-> chars]

Ref(r) == [tag |-> "object", ref |-> r]

Error(message) == [tag |-> "Error", name |-> "Error", message |-> message]

URIError == [tag |-> "Error", name |-> "URIError", message |-> "URI malformed"]

\* A number, and the number NaN.
Num(n) == [tag |-> "number", nan |-> FALSE, value |-> n]

NaN == [tag |-> "number", nan |-> TRUE, value |-> 0]

Normal(v) == [type |-> "normal", value |-> v]

Throw(e) == [type |-> "throw", value |-> e]

\* ToBoolean, as `!value`, `if (x)` and `x ? a : b` apply it: undefined and
\* the empty string are falsy, so are the numbers 0 and NaN; objects (a Date,
\* a range, a key, an array) are truthy.
ToBoolean(v) ==
    CASE v.tag = "undefined" -> FALSE
      [] v.tag = "string" -> v.chars # <<>>
      [] v.tag = "number" -> ~v.nan /\ v.value # 0
      [] OTHER -> TRUE

(***************************************************************************)
(* Strings.                                                                *)
(***************************************************************************)
\* A UTF-16 surrogate that is not part of a pair (one code unit, written as
\* one element of the sequence).
LoneSurrogate == "\\uD800"

UnreservedChars ==
    { "A","B","C","D","E","F","G","H","I","J","K","L","M",
      "N","O","P","Q","R","S","T","U","V","W","X","Y","Z",
      "a","b","c","d","e","f","g","h","i","j","k","l","m",
      "n","o","p","q","r","s","t","u","v","w","x","y","z",
      "0","1","2","3","4","5","6","7","8","9",
      "-","_",".","!","~","*","'","(",")" }

\* The escape of a character outside the unreserved set: % and the two
\* hexadecimal digits of its (one-byte) UTF-8 encoding.
PercentEscape(c) ==
    CASE c = " " -> <<"%","2","0">>
      [] c = "#" -> <<"%","2","3">>
      [] c = "%" -> <<"%","2","5">>
      [] c = "&" -> <<"%","2","6">>
      [] c = "+" -> <<"%","2","B">>
      [] c = "," -> <<"%","2","C">>
      [] c = "/" -> <<"%","2","F">>
      [] c = ":" -> <<"%","3","A">>
      [] c = "=" -> <<"%","3","D">>
      [] c = "?" -> <<"%","3","F">>

\* The encoding of encodeURI, which keeps the reserved characters
\* ; / ? : @ & = + $ , # as they are.
RECURSIVE EncodeChars_reservedKept(_)
EncodeChars_reservedKept(s) ==
    IF s = <<>> THEN <<>>
    ELSE (IF Head(s) \in UnreservedChars
                 \cup { ";", "/", "?", ":", "@", "&", "=", "+", "$", ",", "#" }
          THEN <<Head(s)>>
          ELSE PercentEscape(Head(s)))
         \o EncodeChars_reservedKept(Tail(s))

RECURSIVE EncodeChars(_)
EncodeChars(s) ==
    IF s = <<>> THEN <<>>
    ELSE (IF Head(s) \in UnreservedChars THEN <<Head(s)>> ELSE PercentEscape(Head(s)))
         \o EncodeChars(Tail(s))

\* encodeURIComponent(v): ToString(v) percent-encoded; a lone surrogate
\* makes it throw URIError.
encodeURIComponent(v) ==
    LET s == IF v.tag = "undefined" THEN <<"u","n","d","e","f","i","n","e","d">>
             ELSE v.chars
    IN IF \E i \in 1..Len(s) : s[i] = LoneSurrogate
       THEN Throw(URIError)
       ELSE Normal(Str(EncodeChars(s)))

\* join writing the separator after every element, the last one too.
RECURSIVE join_trailingSeparator(_, _)
join_trailingSeparator(queries, sep) ==
    IF queries = <<>> THEN <<>>
    ELSE queries[1] \o sep \o join_trailingSeparator(Tail(queries), sep)

\* Array.prototype.join over an array of strings.
RECURSIVE join(_, _)
join(queries, sep) ==
    IF queries = <<>> THEN <<>>
    ELSE IF Len(queries) = 1 THEN queries[1]
    ELSE queries[1] \o sep \o join(Tail(queries), sep)

\* String.prototype.includes.
includes(s, pat) ==
    \E i \in 1..(Len(s) - Len(pat) + 1) : SubSeq(s, i, i + Len(pat) - 1) = pat

(***************************************************************************)
(* Dates.  A Date is its UTC calendar fields; toISOString renders them as  *)
(* YYYY-MM-DDTHH:mm:ss.sssZ.  A Date whose time value is NaN (an Invalid   *)
(* Date) has no calendar fields to render: toISOString throws RangeError.  *)
(***************************************************************************)
Date(Y, Mo, D, h, mi, s, ms) ==
    [tag |-> "Date", valid |-> TRUE,
     Y |-> Y, Mo |-> Mo, D |-> D, h |-> h, mi |-> mi, s |-> s, ms |-> ms]

\* new Date(NaN).
InvalidDate ==
    [tag |-> "Date", valid |-> FALSE,
     Y |-> 0, Mo |-> 0, D |-> 0, h |-> 0, mi |-> 0, s |-> 0, ms |-> 0]

RangeError == [tag |-> "Error", name |-> "RangeError", message |-> "Invalid time value"]

Digit == <<"0","1","2","3","4","5","6","7","8","9">>

Pad(n, w) == [i \in 1..w |-> Digit[((n \div (10 ^ (w - i))) % 10) + 1]]

toISOString(date) ==
    IF ~date.valid THEN Throw(RangeError)
    ELSE Normal(Pad(date.Y, 4) \o <<"-">> \o Pad(date.Mo, 2) \o <<"-">> \o Pad(date.D, 2)
                \o <<"T">> \o Pad(date.h, 2) \o <<":">> \o Pad(date.mi, 2)
                \o <<":">> \o Pad(date.s, 2) \o <<".">> \o Pad(date.ms, 3) \o <<"Z">>)

\* The truncated ISO-8601 encoder: without milliseconds, the date-time cut
\* to whole seconds, with no fractional part; the throw of toISOString for
\* an Invalid Date.
truncatedISO8061Date(date, withMilliseconds) ==
    LET iso == toISOString(date)
    IN IF iso.type = "throw" THEN iso
       ELSE LET dateString == iso.value
            IN IF withMilliseconds
               THEN Normal(Str(SubSeq(dateString, 1, Len(dateString) - 1)
                               \o <<"0","0","0","0","Z">>))
               ELSE Normal(Str(SubSeq(dateString, 1, Len(dateString) - 5) \o <<"Z">>))

(***************************************************************************)
(* The IP range codec.                                                     *)
(***************************************************************************)
\* start alone when end is absent or equal to start, else start-end.
ipRangeToString(ipRange) ==
    IF ipRange.end = Undefined \/ ipRange.end = ipRange.start
    THEN ipRange.start
    ELSE Str(ipRange.start.chars \o <<"-">> \o ipRange.end.chars)

(***************************************************************************)
(* SasQueryParameters.                                                     *)
(***************************************************************************)
SasIPRange(start, end) == [tag |-> "SasIPRange", start |-> start, end |-> end]

UserDelegationKey(oid, tid, startsOn, expiresOn, service, version) ==
    [tag |-> "UserDelegationKey",
     signedObjectId |-> oid, signedTenantId |-> tid,
     signedStartsOn |-> startsOn, signedExpiresOn |-> expiresOn,
     signedService |-> service, signedVersion |-> version]

\* The constructor replacing an empty version by a default, silently.
SasQueryParameters_defaultVersion(version, signature, options) ==
    LET key == options.userDelegationKey
        underKey(v) == IF ToBoolean(key) THEN v ELSE Undefined
    IN [tag |-> "SasQueryParameters",
        version |-> IF ToBoolean(version) THEN version
                    ELSE Str(<<"2","0","1","9","-","0","2","-","0","2">>),
        signature |-> signature,
        permissions |-> options.permissions,
        services |-> options.services,
        resourceTypes |-> options.resourceTypes,
        protocol |-> options.protocol,
        startsOn |-> options.startsOn,
        expiresOn |-> options.expiresOn,
        ipRangeInner |-> options.ipRange,
        identifier |-> options.identifier,
        tableName |-> options.tableName,
        endPartitionKey |-> options.endPartitionKey,
        endRowKey |-> options.endRowKey,
        startPartitionKey |-> options.startPartitionKey,
        startRowKey |-> options.startRowKey,
        signedOid |-> underKey(key.signedObjectId),
        signedTenantId |-> underKey(key.signedTenantId),
        signedStartsOn |-> underKey(key.signedStartsOn),
        signedExpiresOn |-> underKey(key.signedExpiresOn),
        signedService |-> underKey(key.signedService),
        signedVersion |-> underKey(key.signedVersion),
        preauthorizedAgentObjectId |-> underKey(options.preauthorizedAgentObjectId),
        correlationId |-> underKey(options.correlationId)]

\* The constructor copying the key's version without looking for a key, so
\* that signedVersion falls back to the service version.
SasQueryParameters_versionWithoutKey(version, signature, options) ==
    LET key == options.userDelegationKey
        underKey(v) == IF ToBoolean(key) THEN v ELSE Undefined
    IN [tag |-> "SasQueryParameters",
        version |-> version,
        signature |-> signature,
        permissions |-> options.permissions,
        services |-> options.services,
        resourceTypes |-> options.resourceTypes,
        protocol |-> options.protocol,
        startsOn |-> options.startsOn,
        expiresOn |-> options.expiresOn,
        ipRangeInner |-> options.ipRange,
        identifier |-> options.identifier,
        tableName |-> options.tableName,
        endPartitionKey |-> options.endPartitionKey,
        endRowKey |-> options.endRowKey,
        startPartitionKey |-> options.startPartitionKey,
        startRowKey |-> options.startRowKey,
        signedOid |-> underKey(key.signedObjectId),
        signedTenantId |-> underKey(key.signedTenantId),
        signedStartsOn |-> underKey(key.signedStartsOn),
        signedExpiresOn |-> underKey(key.signedExpiresOn),
        signedService |-> underKey(key.signedService),
        signedVersion |-> IF ToBoolean(key) THEN key.signedVersion ELSE version,
        preauthorizedAgentObjectId |-> underKey(options.preauthorizedAgentObjectId),
        correlationId |-> underKey(options.correlationId)]

\* The constructor forgetting to copy the key's service.
SasQueryParameters_dropsSignedService(version, signature, options) ==
    LET key == options.userDelegationKey
        underKey(v) == IF ToBoolean(key) THEN v ELSE Undefined
    IN [tag |-> "SasQueryParameters",
        version |-> version,
        signature |-> signature,
        permissions |-> options.permissions,
        services |-> options.services,
        resourceTypes |-> options.resourceTypes,
        protocol |-> options.protocol,
        startsOn |-> options.startsOn,
        expiresOn |-> options.expiresOn,
        ipRangeInner |-> options.ipRange,
        identifier |-> options.identifier,
        tableName |-> options.tableName,
        endPartitionKey |-> options.endPartitionKey,
        endRowKey |-> options.endRowKey,
        startPartitionKey |-> options.startPartitionKey,
        startRowKey |-> options.startRowKey,
        signedOid |-> underKey(key.signedObjectId),
        signedTenantId |-> underKey(key.signedTenantId),
        signedStartsOn |-> underKey(key.signedStartsOn),
        signedExpiresOn |-> underKey(key.signedExpiresOn),
        signedService |-> Undefined,
        signedVersion |-> underKey(key.signedVersion),
        preauthorizedAgentObjectId |-> underKey(options.preauthorizedAgentObjectId),
        correlationId |-> underKey(options.correlationId)]

\* The constructor keeping a row key only next to the partition key of the
\* same bound.
SasQueryParameters_rowKeyNeedsPartitionKey(version, signature, options) ==
    LET key == options.userDelegationKey
        underKey(v) == IF ToBoolean(key) THEN v ELSE Undefined
    IN [tag |-> "SasQueryParameters",
        version |-> version,
        signature |-> signature,
        permissions |-> options.permissions,
        services |-> options.services,
        resourceTypes |-> options.resourceTypes,
        protocol |-> options.protocol,
        startsOn |-> options.startsOn,
        expiresOn |-> options.expiresOn,
        ipRangeInner |-> options.ipRange,
        identifier |-> options.identifier,
        tableName |-> options.tableName,
        endPartitionKey |-> options.endPartitionKey,
        endRowKey |-> IF ToBoolean(options.endPartitionKey)
                      THEN options.endRowKey ELSE Undefined,
        startPartitionKey |-> options.startPartitionKey,
        startRowKey |-> IF ToBoolean(options.startPartitionKey)
                        THEN options.startRowKey ELSE Undefined,
        signedOid |-> underKey(key.signedObjectId),
        signedTenantId |-> underKey(key.signedTenantId),
        signedStartsOn |-> underKey(key.signedStartsOn),
        signedExpiresOn |-> underKey(key.signedExpiresOn),
        signedService |-> underKey(key.signedService),
        signedVersion |-> underKey(key.signedVersion),
        preauthorizedAgentObjectId |-> underKey(options.preauthorizedAgentObjectId),
        correlationId |-> underKey(options.correlationId)]

\* The constructor copying preauthorizedAgentObjectId and correlationId
\* outside the delegation-key block.
SasQueryParameters_agentIdWithoutKey(version, signature, options) ==
    LET key == options.userDelegationKey
        underKey(v) == IF ToBoolean(key) THEN v ELSE Undefined
    IN [tag |-> "SasQueryParameters",
        version |-> version,
        signature |-> signature,
        permissions |-> options.permissions,
        services |-> options.services,
        resourceTypes |-> options.resourceTypes,
        protocol |-> options.protocol,
        startsOn |-> options.startsOn,
        expiresOn |-> options.expiresOn,
        ipRangeInner |-> options.ipRange,
        identifier |-> options.identifier,
        tableName |-> options.tableName,
        endPartitionKey |-> options.endPartitionKey,
        endRowKey |-> options.endRowKey,
        startPartitionKey |-> options.startPartitionKey,
        startRowKey |-> options.startRowKey,
        signedOid |-> underKey(key.signedObjectId),
        signedTenantId |-> underKey(key.signedTenantId),
        signedStartsOn |-> underKey(key.signedStartsOn),
        signedExpiresOn |-> underKey(key.signedExpiresOn),
        signedService |-> underKey(key.signedService),
        signedVersion |-> underKey(key.signedVersion),
        preauthorizedAgentObjectId |-> options.preauthorizedAgentObjectId,
        correlationId |-> options.correlationId]

\* The constructor: every option is copied as given; the delegation-key
\* fields, preauthorizedAgentObjectId and correlationId only under a key.
SasQueryParameters(version, signature, options) ==
    LET key == options.userDelegationKey
        underKey(v) == IF ToBoolean(key) THEN v ELSE Undefined
    IN [tag |-> "SasQueryParameters",
        version |-> version,
        signature |-> signature,
        permissions |-> options.permissions,
        services |-> options.services,
        resourceTypes |-> options.resourceTypes,
        protocol |-> options.protocol,
        startsOn |-> options.startsOn,
        expiresOn |-> options.expiresOn,
        ipRangeInner |-> options.ipRange,
        identifier |-> options.identifier,
        tableName |-> options.tableName,
        endPartitionKey |-> options.endPartitionKey,
        endRowKey |-> options.endRowKey,
        startPartitionKey |-> options.startPartitionKey,
        startRowKey |-> options.startRowKey,
        signedOid |-> underKey(key.signedObjectId),
        signedTenantId |-> underKey(key.signedTenantId),
        signedStartsOn |-> underKey(key.signedStartsOn),
        signedExpiresOn |-> underKey(key.signedExpiresOn),
        signedService |-> underKey(key.signedService),
        signedVersion |-> underKey(key.signedVersion),
        preauthorizedAgentObjectId |-> underKey(options.preauthorizedAgentObjectId),
        correlationId |-> underKey(options.correlationId)]

\* The ipRange getter: a fresh {end, start} copy of the stored range, read
\* through the heap h, or undefined.
ipRange(this, h) ==
    IF ToBoolean(this.ipRangeInner)
    THEN SasIPRange(h[this.ipRangeInner.ref].start, h[this.ipRangeInner.ref].end)
    ELSE Undefined

\* params with srk and spk in the order of the switch cases (spk first).
params_spkFirst ==
    << <<"s","v">>, <<"s","s">>, <<"s","r","t">>, <<"s","p","r">>,
       <<"s","t">>, <<"s","e">>, <<"s","i","p">>, <<"s","i">>,
       <<"s","k","o","i","d">>, <<"s","k","t","i","d">>, <<"s","k","t">>,
       <<"s","k","e">>, <<"s","k","s">>, <<"s","k","v">>,
       <<"s","r">>, <<"s","p">>, <<"s","i","g">>,
       <<"r","s","c","c">>, <<"r","s","c","d">>, <<"r","s","c","e">>,
       <<"r","s","c","l">>, <<"r","s","c","t">>,
       <<"s","a","o","i","d">>, <<"s","c","i","d">>, <<"t","n">>,
       <<"s","p","k">>, <<"s","r","k">>, <<"e","p","k">>, <<"e","r","k">> >>

\* The sip case leaving out a range whose start is not made of digits and
\* dots.
sipValue_rejectsMalformed(this, h) ==
    IF ToBoolean(ipRange(this, h))
       /\ \A i \in 1..Len(ipRange(this, h).start.chars) :
             ipRange(this, h).start.chars[i] \in
                { "0","1","2","3","4","5","6","7","8","9","." }
    THEN ipRangeToString(ipRange(this, h))
    ELSE Undefined

\* The sip case passing the start address alone.
sipValue_startOnly(this, h) ==
    IF ToBoolean(ipRange(this, h)) THEN ipRange(this, h).start ELSE Undefined

\* The value of the sip case: the range of the getter through the codec.
sipValue(this, h) ==
    IF ToBoolean(ipRange(this, h)) THEN ipRangeToString(ipRange(this, h)) ELSE Undefined

\* The list toString iterates over.
params ==
    << <<"s","v">>, <<"s","s">>, <<"s","r","t">>, <<"s","p","r">>,
       <<"s","t">>, <<"s","e">>, <<"s","i","p">>, <<"s","i">>,
       <<"s","k","o","i","d">>, <<"s","k","t","i","d">>, <<"s","k","t">>,
       <<"s","k","e">>, <<"s","k","s">>, <<"s","k","v">>,
       <<"s","r">>, <<"s","p">>, <<"s","i","g">>,
       <<"r","s","c","c">>, <<"r","s","c","d">>, <<"r","s","c","e">>,
       <<"r","s","c","l">>, <<"r","s","c","t">>,
       <<"s","a","o","i","d">>, <<"s","c","i","d">>, <<"t","n">>,
       <<"s","r","k">>, <<"s","p","k">>, <<"e","p","k">>, <<"e","r","k">> >>

\* The value of a timestamp case with the encoder's second argument left
\* out, which renders the fractional part.
timestampValue_withMilliseconds(date) ==
    IF ToBoolean(date) THEN truncatedISO8061Date(date, TRUE) ELSE Normal(Undefined)

\* The value of a timestamp case (st, se, skt, ske): the date through the
\* truncated ISO-8601 encoder without milliseconds; nothing for no date.
\* The completion of the expression: the encoder may throw.
timestampValue(date) ==
    IF ToBoolean(date) THEN truncatedISO8061Date(date, FALSE) ELSE Normal(Undefined)

\* tryAppendQueryParameter pushing the value as it is, not percent-encoded.
tryAppendQueryParameter_rawValue(queries, key, value) ==
    IF ~ToBoolean(value) THEN Normal(queries)
    ELSE LET k == encodeURIComponent(Str(key))
         IN IF k.type = "throw" THEN k
            ELSE IF Len(k.value.chars) > 0 /\ Len(value.chars) > 0
                 THEN Normal(Append(queries, k.value.chars \o <<"=">> \o value.chars))
                 ELSE Normal(queries)

\* tryAppendQueryParameter without its guard on a missing value.
tryAppendQueryParameter_noGuard(queries, key, value) ==
    LET k == encodeURIComponent(Str(key))
        v == encodeURIComponent(value)
    IN IF k.type = "throw" THEN k
       ELSE IF v.type = "throw" THEN v
       ELSE IF Len(k.value.chars) > 0 /\ Len(v.value.chars) > 0
            THEN Normal(Append(queries, k.value.chars \o <<"=">> \o v.value.chars))
            ELSE Normal(queries)

\* tryAppendQueryParameter: the queries array after the call, or a throw.
tryAppendQueryParameter(queries, key, value) ==
    IF ~ToBoolean(value) THEN Normal(queries)
    ELSE LET k == encodeURIComponent(Str(key))
             v == encodeURIComponent(value)
         IN IF k.type = "throw" THEN k
            ELSE IF v.type = "throw" THEN v
            ELSE IF Len(k.value.chars) > 0 /\ Len(v.value.chars) > 0
                 THEN Normal(Append(queries, k.value.chars \o <<"=">> \o v.value.chars))
                 ELSE Normal(queries)

\* A timestamp case: the value expression is evaluated first, and its
\* throw is the throw of the case; otherwise its value is appended.
tryAppendTimestamp(queries, key, completion) ==
    IF completion.type = "throw" THEN completion
    ELSE tryAppendQueryParameter(queries, key, completion.value)

\* The body of toString's loop for one param: the switch.
switch(this, h, queries, param) ==
    CASE param = <<"s","v">> -> tryAppendQueryParameter(queries, param, this.version)
      [] param = <<"s","s">> -> tryAppendQueryParameter(queries, param, this.services)
      [] param = <<"s","r","t">> -> tryAppendQueryParameter(queries, param, this.resourceTypes)
      [] param = <<"s","p","r">> -> tryAppendQueryParameter(queries, param, this.protocol)
      [] param = <<"s","t">> ->
            tryAppendTimestamp(queries, param, timestampValue(this.startsOn))
      [] param = <<"s","e">> ->
            tryAppendTimestamp(queries, param, timestampValue(this.expiresOn))
      [] param = <<"s","i","p">> -> tryAppendQueryParameter(queries, param, sipValue(this, h))
      [] param = <<"s","i">> -> tryAppendQueryParameter(queries, param, this.identifier)
      [] param = <<"s","k","o","i","d">> -> tryAppendQueryParameter(queries, param, this.signedOid)
      [] param = <<"s","k","t","i","d">> ->
            tryAppendQueryParameter(queries, param, this.signedTenantId)
      [] param = <<"s","k","t">> ->
            tryAppendTimestamp(queries, param, timestampValue(this.signedStartsOn))
      [] param = <<"s","k","e">> ->
            tryAppendTimestamp(queries, param, timestampValue(this.signedExpiresOn))
      [] param = <<"s","k","s">> -> tryAppendQueryParameter(queries, param, this.signedService)
      [] param = <<"s","k","v">> -> tryAppendQueryParameter(queries, param, this.signedVersion)
      [] param = <<"s","p">> -> tryAppendQueryParameter(queries, param, this.permissions)
      [] param = <<"s","i","g">> -> tryAppendQueryParameter(queries, param, this.signature)
      [] param = <<"s","a","o","i","d">> ->
            tryAppendQueryParameter(queries, param, this.preauthorizedAgentObjectId)
      [] param = <<"s","c","i","d">> -> tryAppendQueryParameter(queries, param, this.correlationId)
      [] param = <<"t","n">> -> tryAppendQueryParameter(queries, param, this.tableName)
      [] param = <<"s","p","k">> -> tryAppendQueryParameter(queries, param, this.startPartitionKey)
      [] param = <<"s","r","k">> -> tryAppendQueryParameter(queries, param, this.startRowKey)
      [] param = <<"e","p","k">> -> tryAppendQueryParameter(queries, param, this.endPartitionKey)
      [] param = <<"e","r","k">> -> tryAppendQueryParameter(queries, param, this.endRowKey)
      [] OTHER -> Normal(queries)

\* The loop with a case for sr, written from the table name.
RECURSIVE toStringLoop_populatesSr(_, _, _, _)
toStringLoop_populatesSr(this, h, i, queries) ==
    IF i > Len(params) THEN Normal(queries)
    ELSE LET step == IF params[i] = <<"s","r">>
                     THEN tryAppendQueryParameter(queries, params[i], this.tableName)
                     ELSE switch(this, h, queries, params[i])
         IN IF step.type = "throw" THEN step
            ELSE toStringLoop_populatesSr(this, h, i + 1, step.value)

\* The loop of toString from the i-th param on, with the queries so far.
RECURSIVE toStringLoop(_, _, _, _)
toStringLoop(this, h, i, queries) ==
    IF i > Len(params) THEN Normal(queries)
    ELSE LET step == switch(this, h, queries, params[i])
         IN IF step.type = "throw" THEN step
            ELSE toStringLoop(this, h, i + 1, step.value)

toString(this, h) ==
    LET loop == toStringLoop(this, h, 1, <<>>)
    IN IF loop.type = "throw" THEN loop
       ELSE Normal(Str(join(loop.value, <<"&">>)))

(***************************************************************************)
(* The inputs of the constructor: the values of SasQueryParametersOptions  *)
(* the model draws from, each of the declared type of its option.          *)
(***************************************************************************)
VersionInputs == { Str(<<>>), Str(<<"2","0","2","3","-","0","1","-","0","1">>) }

SignatureInputs == { Str(<<>>), Str(<<"S","I","G","X","Y","Z">>) }

OptionNames ==
    { "permissions", "tableName", "services", "resourceTypes", "protocol",
      "startsOn", "expiresOn", "ipRange", "identifier", "resource",
      "userDelegationKey", "preauthorizedAgentObjectId", "correlationId",
      "startPartitionKey", "startRowKey", "endPartitionKey", "endRowKey" }

\* The values an option takes when the bag defines it.
OptionValues(name) ==
    CASE name = "permissions" -> { Str(<<>>), Str(<<"r">>) }
      [] name = "tableName" -> { Str(<<"T","1">>), Str(<<"a","&","b","=","c">>) }
      [] name = "services" -> { Str(<<"t">>) }
      [] name = "resourceTypes" -> { Str(<<>>), Str(<<"s","c","o">>) }
      [] name = "protocol" ->
            { Str(<<"h","t","t","p","s">>), Str(<<"h","t","t","p","s",",","h","t","t","p">>) }
      [] name = "startsOn" -> { Date(2023, 6, 15, 12, 30, 45, 678), InvalidDate }
      [] name = "expiresOn" -> { Date(2024, 1, 1, 0, 0, 0, 0), Date(2023, 6, 15, 12, 30, 45, 678) }
      [] name = "ipRange" ->
            { SasIPRange(Str(<<"1","0",".","0",".","0",".","1">>), Undefined),
              SasIPRange(Str(<<"1","0",".","0",".","0",".","1">>),
                         Str(<<"1","0",".","0",".","0",".","1">>)),
              SasIPRange(Str(<<"1","0",".","0",".","0",".","1">>),
                         Str(<<"1","0",".","0",".","0",".","5">>)),
              SasIPRange(Str(<<>>), Undefined),
              SasIPRange(Str(<<"3","0","0",".","1",".","x">>), Undefined) }
      [] name = "identifier" -> { Str(<<"i","d">>), Str(<<"x", LoneSurrogate>>) }
      [] name = "resource" -> { Str(<<"b">>) }
      [] name = "userDelegationKey" ->
            { UserDelegationKey(Str(<<"o","i","d">>), Str(<<"t","i","d">>),
                                Date(2023, 6, 15, 12, 30, 45, 678), Date(2024, 1, 1, 0, 0, 0, 0),
                                Str(<<"t">>), Str(<<"2","0","1","9">>)),
              UserDelegationKey(Str(<<>>), Str(<<"t","i","d">>),
                                Date(2023, 6, 15, 12, 30, 45, 678), Date(2024, 1, 1, 0, 0, 0, 0),
                                Str(<<"t">>), Str(<<>>)),
              UserDelegationKey(Str(<<"o","i","d">>), Str(<<"t","i","d">>),
                                Date(2023, 6, 15, 12, 30, 45, 678), InvalidDate,
                                Str(<<"t">>), Str(<<"2","0","1","9">>)) }
      [] name = "preauthorizedAgentObjectId" -> { Str(<<"a","o">>) }
      [] name = "correlationId" -> { Str(<<"c","1">>) }
      [] name = "startPartitionKey" -> { Str(<<"p","1">>), Str(<<"p"," ","#","1">>) }
      [] name = "startRowKey" -> { Str(<<"r","1">>) }
      [] name = "endPartitionKey" -> { Str(<<"p","9">>), Str(<<>>) }
      [] name = "endRowKey" -> { Str(<<"r","9">>) }

\* The options bag that defines nothing (the default `options = {}`).
EmptyOptions == [name \in OptionNames |-> Undefined]

\* The options bags that define at most k options.
RECURSIVE OptionBags(_)
OptionBags(k) ==
    IF k = 0 THEN { EmptyOptions }
    ELSE LET smaller == OptionBags(k - 1)
         IN smaller \cup
            UNION { { [bag EXCEPT ![name] = v] : v \in OptionValues(name) } :
                    <<bag, name>> \in smaller \X OptionNames }

\* The options bags of a table SAS with a permission and an expiry: those
\* that define tableName, permissions and expiresOn and nothing else.
ScenarioBags ==
    { [EmptyOptions EXCEPT !["tableName"] = t, !["permissions"] = p, !["expiresOn"] = e] :
      t \in OptionValues("tableName"), p \in OptionValues("permissions"),
      e \in OptionValues("expiresOn") }

(***************************************************************************)
(* The operations on a SasQueryParameters object.                          *)
(***************************************************************************)
Completion(op, c) == [op |-> op, type |-> c.type, value |-> c.value]

\* The callers of toString(), and the activation of a call not yet made.
Callers == 1..MaxCallers

IdleFrame == [pc |-> "idle", i |-> 0, queries |-> <<>>, result |-> Undefined]

\* new SasQueryParameters(version, signature, options): the caller's range
\* object, when given, lives on the heap and the options hold a reference.
ConstructWith(version, signature, bag) ==
    LET options == IF bag.ipRange = Undefined THEN bag
                   ELSE [bag EXCEPT !["ipRange"] = Ref(1)]
    IN /\ heap' = IF bag.ipRange = Undefined THEN <<>> ELSE <<bag.ipRange>>
       /\ ctor' = [tag |-> "arguments", version |-> version,
                   signature |-> signature, options |-> options]
       /\ sas' = SasQueryParameters(version, signature, options)
       /\ ret' = Completion("constructor", Normal(Undefined))

Construct ==
    /\ sas = Undefined
    /\ \E version \in VersionInputs, signature \in SignatureInputs,
          bag \in OptionBags(MaxOptions) \cup ScenarioBags :
          ConstructWith(version, signature, bag)
    /\ UNCHANGED <<outs, frames, initialResponse, calls, polling, log, pager>>

\* toString() clearing the signature once it has written it out.
toStringCall_consumesSignature ==
    /\ sas # Undefined
    /\ ret' = Completion("toString", toString(sas, heap))
    /\ sas' = [sas EXCEPT !.signature = Undefined]
    /\ UNCHANGED <<ctor, heap, frames, initialResponse, calls, polling, log, pager>>

\* A call of sas.toString(): what it does to the object and its caller.
toStringCall ==
    /\ sas # Undefined
    /\ ret' = Completion("toString", toString(sas, heap))
    /\ UNCHANGED <<ctor, sas, heap, frames, initialResponse, calls, polling, log, pager>>

\* sas.toString()
ToString == toStringCall /\ UNCHANGED outs

\* The getter handing out the stored range object itself, not a copy.
GetIpRange_returnsStored ==
    /\ sas # Undefined
    /\ Len(heap) <= MaxViews
    /\ ret' = Completion("ipRange", Normal(sas.ipRangeInner))
    /\ UNCHANGED <<ctor, sas, heap, outs, frames, initialResponse, calls, polling, log, pager>>

\* The getter keeping the copy it returns as the stored range.
GetIpRange_storesCopy ==
    /\ sas # Undefined
    /\ Len(heap) <= MaxViews
    /\ LET view == ipRange(sas, heap)
       IN IF view = Undefined
          THEN /\ ret' = Completion("ipRange", Normal(Undefined))
               /\ heap' = heap
               /\ sas' = sas
          ELSE /\ ret' = Completion("ipRange", Normal(Ref(Len(heap) + 1)))
               /\ heap' = Append(heap, view)
               /\ sas' = [sas EXCEPT !.ipRangeInner = Ref(Len(heap) + 1)]
    /\ UNCHANGED <<ctor, outs, frames, initialResponse, calls, polling, log, pager>>

\* A read of sas.ipRange by the caller: the copy is a new object.
GetIpRange ==
    /\ sas # Undefined
    /\ Len(heap) <= MaxViews
    /\ LET view == ipRange(sas, heap)
       IN IF view = Undefined
          THEN /\ ret' = Completion("ipRange", Normal(Undefined))
               /\ heap' = heap
          ELSE /\ ret' = Completion("ipRange", Normal(Ref(Len(heap) + 1)))
               /\ heap' = Append(heap, view)
    /\ UNCHANGED <<ctor, sas, outs, frames, initialResponse, calls, polling, log, pager>>

\* No pollUntilDone() has been called: no poll request sent, no sleep made.
NotStarted ==
    [state |-> "none", poller |-> Undefined, requests |-> 0, sleeps |-> 0,
     result |-> Undefined]

Init ==
    /\ ctor = Undefined
    /\ sas = Undefined
    /\ heap = <<>>
    /\ ret = Completion("none", Normal(Undefined))
    /\ outs = <<>>
    /\ frames = [c \in Callers |-> IdleFrame]
    /\ initialResponse = Undefined
    /\ calls = <<>>
    /\ polling = NotStarted
    /\ log = <<>>
    /\ pager = Undefined

Next == Construct \/ ToString \/ GetIpRange

Spec == Init /\ [][Next]_vars

(***************************************************************************)
(* A caller that keeps what toString() returns, calls it again, and writes *)
(* to the range objects that reads of ipRange gave it.                     *)
(***************************************************************************)
\* The options bags of the objects of such a caller: one option at most,
\* or a table SAS.
CallerBags == OptionBags(1) \cup ScenarioBags

ConstructForCaller ==
    /\ sas = Undefined
    /\ \E version \in VersionInputs, signature \in SignatureInputs, bag \in CallerBags :
          ConstructWith(version, signature, bag)
    /\ UNCHANGED <<outs, frames, initialResponse, calls, polling, log, pager>>

\* sas.toString(), the caller keeping the completion.
ToStringKept ==
    /\ Len(outs) < MaxCalls
    /\ toStringCall
    /\ outs' = Append(outs, ret')

\* The addresses the caller writes into a range object it has read.
ViewWrites == { Str(<<"9",".","9",".","9",".","9">>) }

\* The caller assigns to start or end of the object the last read of
\* sas.ipRange returned.
SetViewField ==
    /\ ret.op = "ipRange"
    /\ ret.value # Undefined
    /\ \E field \in { "start", "end" }, v \in ViewWrites :
          heap' = [heap EXCEPT ![ret.value.ref] = [@ EXCEPT ![field] = v]]
    /\ UNCHANGED <<ctor, sas, ret, outs, frames, initialResponse, calls, polling, log, pager>>

NextCaller == ConstructForCaller \/ ToStringKept \/ GetIpRange \/ SetViewField

SpecCaller == Init /\ [][NextCaller]_vars

(***************************************************************************)
(* toString() in steps, for calls in progress at the same time: a call     *)
(* creates its own queries array, runs the loop one param at a time and    *)
(* joins at the end.  The steps of different calls interleave freely.      *)
(***************************************************************************)
\* The constructor arguments of the objects the callers share.
SharedInputs ==
    { [version |-> Str(<<"2","0","2","3","-","0","1","-","0","1">>),
       signature |-> Str(<<"S","I","G","X","Y","Z">>),
       bag |-> [EmptyOptions EXCEPT !["tableName"] = Str(<<"T","1">>),
                                    !["permissions"] = Str(<<"r">>),
                                    !["expiresOn"] = Date(2024, 1, 1, 0, 0, 0, 0)]],
      [version |-> Str(<<"2","0","2","3","-","0","1","-","0","1">>),
       signature |-> Str(<<"S","I","G","X","Y","Z">>),
       bag |-> [EmptyOptions EXCEPT !["tableName"] = Str(<<"T","1">>),
                                    !["identifier"] = Str(<<"x", LoneSurrogate>>)]],
      [version |-> Str(<<>>),
       signature |-> Str(<<"S","I","G","X","Y","Z">>),
       bag |-> [EmptyOptions EXCEPT
                   !["ipRange"] = SasIPRange(Str(<<"1","0",".","0",".","0",".","1">>),
                                             Str(<<"1","0",".","0",".","0",".","5">>)),
                   !["startRowKey"] = Str(<<"r","1">>)]],
      [version |-> Str(<<>>), signature |-> Str(<<>>), bag |-> EmptyOptions] }

ConstructShared ==
    /\ sas = Undefined
    /\ \E input \in SharedInputs : ConstructWith(input.version, input.signature, input.bag)
    /\ UNCHANGED <<outs, frames, initialResponse, calls, polling, log, pager>>

\* One step of a toString() call on `this`: the call starts with a new
\* empty queries array; each turn of the loop passes one param through the
\* switch; after the last param the array is joined and returned.
toStringStep(frame, this, h) ==
    IF frame.pc = "idle"
    THEN [pc |-> "loop", i |-> 1, queries |-> <<>>, result |-> Undefined]
    ELSE IF frame.i > Len(params)
    THEN [pc |-> "done", i |-> frame.i, queries |-> frame.queries,
          result |-> Normal(Str(join(frame.queries, <<"&">>)))]
    ELSE LET step == switch(this, h, frame.queries, params[frame.i])
         IN IF step.type = "throw"
            THEN [pc |-> "done", i |-> frame.i, queries |-> frame.queries, result |-> step]
            ELSE [pc |-> "loop", i |-> frame.i + 1, queries |-> step.value,
                  result |-> Undefined]

\* A step of caller c's call, with one queries array for all the calls in
\* progress: what c pushes, every other call sees in its array.
ToStringStep_sharedQueries(c) ==
    /\ sas # Undefined
    /\ frames[c].pc # "done"
    /\ LET after == toStringStep(frames[c], sas, heap)
       IN frames' = [d \in Callers |->
                        IF d = c THEN after
                        ELSE IF frames[d].pc = "loop" /\ after.pc = "loop"
                        THEN [frames[d] EXCEPT !.queries = after.queries]
                        ELSE frames[d]]
    /\ UNCHANGED <<ctor, sas, heap, ret, outs, initialResponse, calls, polling, log, pager>>

\* A step of caller c's call of sas.toString().
ToStringStep(c) ==
    /\ sas # Undefined
    /\ frames[c].pc # "done"
    /\ frames' = [frames EXCEPT ![c] = toStringStep(frames[c], sas, heap)]
    /\ UNCHANGED <<ctor, sas, heap, ret, outs, initialResponse, calls, polling, log, pager>>

NextConcurrent == ConstructShared \/ \E c \in Callers : ToStringStep(c)

SpecConcurrent == Init /\ [][NextConcurrent]_vars

(***************************************************************************)
(* The long-running-operation dispatcher.                                  *)
(***************************************************************************)
client == [tag |-> "AzureLoadTestingClient"]

\* The two poller factories: each builds its poller from the client and the
\* initial response, and sends nothing.
getFileValidationPoller(c, response) ==
    [tag |-> "FileUploadAndValidatePoller", client |-> c, initialResponse |-> response]

getTestRunCompletionPoller(c, response) ==
    [tag |-> "TestRunCompletionPoller", client |-> c, initialResponse |-> response]

\* isFileUpload looking for the segment without its closing slash.
isFileUpload_noClosingSlash(response) ==
    includes(response.request.url.chars, <<"/","f","i","l","e","s">>)

\* isFileUpload deciding by the body of the response as well.
isFileUpload_byBody(response) ==
    includes(response.request.url.chars, <<"/","f","i","l","e","s","/">>)
    /\ response.body = "file"

isFileUpload(response) ==
    includes(response.request.url.chars, <<"/","f","i","l","e","s","/">>)

isTestRunCreation(response) ==
    includes(response.request.url.chars, <<"/","t","e","s","t","-","r","u","n","s","/">>)

NotLongRunning == Error("The Operation is not a long running operation.")

\* getLongRunningPoller falling off its end instead of throwing.
getLongRunningPoller_returnsNothing(c, response) ==
    IF isFileUpload(response)
    THEN [type |-> "normal", value |-> getFileValidationPoller(c, response),
          calls |-> << [fn |-> "getFileValidationPoller", client |-> c,
                        initialResponse |-> response] >>]
    ELSE IF isTestRunCreation(response)
    THEN [type |-> "normal", value |-> getTestRunCompletionPoller(c, response),
          calls |-> << [fn |-> "getTestRunCompletionPoller", client |-> c,
                        initialResponse |-> response] >>]
    ELSE [type |-> "normal", value |-> Undefined, calls |-> <<>>]

\* getLongRunningPoller testing for a test run first.
getLongRunningPoller_testRunFirst(c, response) ==
    IF isTestRunCreation(response)
    THEN [type |-> "normal", value |-> getTestRunCompletionPoller(c, response),
          calls |-> << [fn |-> "getTestRunCompletionPoller", client |-> c,
                        initialResponse |-> response] >>]
    ELSE IF isFileUpload(response)
    THEN [type |-> "normal", value |-> getFileValidationPoller(c, response),
          calls |-> << [fn |-> "getFileValidationPoller", client |-> c,
                        initialResponse |-> response] >>]
    ELSE [type |-> "throw", value |-> NotLongRunning, calls |-> <<>>]

\* getLongRunningPoller building both pollers before it chooses one.
getLongRunningPoller_buildsBoth(c, response) ==
    LET both == << [fn |-> "getFileValidationPoller", client |-> c,
                    initialResponse |-> response],
                   [fn |-> "getTestRunCompletionPoller", client |-> c,
                    initialResponse |-> response] >>
    IN IF isFileUpload(response)
       THEN [type |-> "normal", value |-> getFileValidationPoller(c, response),
             calls |-> both]
       ELSE IF isTestRunCreation(response)
       THEN [type |-> "normal", value |-> getTestRunCompletionPoller(c, response),
             calls |-> both]
       ELSE [type |-> "throw", value |-> NotLongRunning, calls |-> both]

\* getLongRunningPoller: how the returned promise settles, and the calls of
\* the poller factories made on the way.
getLongRunningPoller(c, response) ==
    IF isFileUpload(response)
    THEN [type |-> "normal", value |-> getFileValidationPoller(c, response),
          calls |-> << [fn |-> "getFileValidationPoller", client |-> c,
                        initialResponse |-> response] >>]
    ELSE IF isTestRunCreation(response)
    THEN [type |-> "normal", value |-> getTestRunCompletionPoller(c, response),
          calls |-> << [fn |-> "getTestRunCompletionPoller", client |-> c,
                        initialResponse |-> response] >>]
    ELSE [type |-> "throw", value |-> NotLongRunning, calls |-> <<>>]

\* The initial responses the model draws from: a request URL made of an
\* origin, a path and a query string, with headers and a body.
Origins ==
    { <<"h","t","t","p","s",":","/","/","h","1">>,
      <<"h","t","t","p","s",":","/","/","h","2">>,
      <<"h","t","t","p","s",":","/","/","f","i","l","e","s">>,
      <<"h","t","t","p","s",":","/","/","t","e","s","t","-","r","u","n","s">> }

Paths ==
    { <<"/","t","e","s","t","s","/","t","1","/","f","i","l","e","s","/","a","b","c","1","2","3">>,
      <<"/","t","e","s","t","-","r","u","n","s","/","r","u","n","1">>,
      <<"/","w","i","d","g","e","t","s","/","1">>,
      <<"/","t","e","s","t","-","r","u","n","s","/","r","1","/","f","i","l","e","s","/","f","1">>,
      <<"/","t","e","s","t","s","/","t","1","/","f","i","l","e","s">> }

Queries ==
    { <<>>,
      <<"?","v","=","1">>,
      <<"?","p","=","/","f","i","l","e","s","/","x">>,
      <<"?","p","=","/","t","e","s","t","-","r","u","n","s","/","y">> }

Urls == { o \o p \o q : <<o, p, q>> \in Origins \X Paths \X Queries }

Responses ==
    { [tag |-> "HttpResponse", request |-> [url |-> Str(u)], status |-> "201",
       headers |-> h, body |-> b] :
      <<u, h, b>> \in Urls \X { "json", "text" } \X { "file", "testRun" } }

GetLongRunningPoller ==
    /\ \E response \in Responses :
          LET r == getLongRunningPoller(client, response)
          IN /\ initialResponse' = response
             /\ ret' = Completion("getLongRunningPoller", r)
             /\ calls' = r.calls
    /\ UNCHANGED <<ctor, sas, heap, outs, frames, polling, log, pager>>

NextLro == GetLongRunningPoller

SpecLro == Init /\ [][NextLro]_vars

(***************************************************************************)
(* SpecPoller: the caller runs a poller to completion.  The pollers are    *)
(* not part of the dispatcher: each drives a poll-sleep-repeat loop until  *)
(* the status of the resource is terminal.                                 *)
(***************************************************************************)
\* The statuses under which a file is still being processed.
NonTerminalStatuses == { "uploaded", "pending", "running" }

\* The statuses the service reports for a file.
FileStatuses == NonTerminalStatuses \cup { "processed", "error" }

\* The poller of agents.uploadFileAndPoll(content, purpose, options).
uploadFileAndPoll == [tag |-> "FileUploadPoller", purpose |-> "assistants"]

\* The done-predicate of the loop with 'running' taken for a final status.
isTerminal_runningIsFinal(status) == status \notin { "uploaded", "pending" }

\* The done-predicate of the loop.
isTerminal(status) == status \notin NonTerminalStatuses

\* The dispatcher is called while no poller is running.
Dispatch ==
    /\ polling.state = "none"
    /\ GetLongRunningPoller

\* agents.uploadFileAndPoll(...): the poller is returned at once.
UploadFileAndPoll ==
    /\ polling.state = "none"
    /\ ret' = Completion("uploadFileAndPoll", Normal(uploadFileAndPoll))
    /\ calls' = <<>>
    /\ UNCHANGED <<ctor, sas, heap, outs, frames, initialResponse, polling, log, pager>>

\* The caller invokes pollUntilDone() on the poller the last call returned.
PollUntilDone ==
    /\ polling.state = "none"
    /\ ret.op \in { "getLongRunningPoller", "uploadFileAndPoll" }
    /\ ret.type = "normal"
    /\ polling' = [NotStarted EXCEPT !.state = "polling", !.poller = ret.value]
    /\ UNCHANGED <<ctor, sas, heap, ret, outs, frames, initialResponse, calls, log, pager>>

\* One turn of the loop: a status request; a terminal status resolves
\* pollUntilDone() with the resource, any other leads to the sleep; a failed
\* request rejects it.
Poll ==
    /\ polling.state = "polling"
    /\ polling.requests < MaxPolls
    /\ \/ \E status \in FileStatuses :
             LET file == [tag |-> "File", status |-> status]
             IN IF isTerminal(status)
                THEN /\ polling' = [polling EXCEPT !.requests = @ + 1,
                                                   !.state = "resolved",
                                                   !.result = file]
                     /\ ret' = Completion("pollUntilDone", Normal(file))
                ELSE /\ polling' = [polling EXCEPT !.requests = @ + 1,
                                                   !.state = "sleeping",
                                                   !.result = file]
                     /\ ret' = ret
       \/ /\ polling' = [polling EXCEPT !.requests = @ + 1, !.state = "rejected"]
          /\ ret' = Completion("pollUntilDone", Throw(Error("request failed")))
    /\ UNCHANGED <<ctor, sas, heap, outs, frames, initialResponse, calls, log, pager>>

\* The wait between two turns.
Sleep ==
    /\ polling.state = "sleeping"
    /\ polling' = [polling EXCEPT !.sleeps = @ + 1, !.state = "polling"]
    /\ UNCHANGED <<ctor, sas, heap, ret, outs, frames, initialResponse, calls, log, pager>>

NextPoller == Dispatch \/ UploadFileAndPoll \/ PollUntilDone \/ Poll \/ Sleep

SpecPoller == Init /\ [][NextPoller]_vars

(***************************************************************************)
(* Reading a query string back: its pairs, and the key and value of each.  *)
(***************************************************************************)
\* The first index of character c in s, 0 when there is none.
IndexOfChar(s, c) ==
    IF \E i \in 1..Len(s) : s[i] = c
    THEN CHOOSE i \in 1..Len(s) : s[i] = c /\ \A j \in 1..(i - 1) : s[j] # c
    ELSE 0

RECURSIVE Split(_, _)
Split(s, c) ==
    LET i == IndexOfChar(s, c)
    IN IF i = 0 THEN <<s>>
       ELSE <<SubSeq(s, 1, i - 1)>> \o Split(SubSeq(s, i + 1, Len(s)), c)

\* The '&'-separated parts of a query string (none for the empty string).
Pairs(out) == IF out = <<>> THEN <<>> ELSE Split(out, "&")

KeyOf(pair) ==
    LET i == IndexOfChar(pair, "=")
    IN IF i = 0 THEN pair ELSE SubSeq(pair, 1, i - 1)

ValueOf(pair) ==
    LET i == IndexOfChar(pair, "=")
    IN IF i = 0 THEN <<>> ELSE SubSeq(pair, i + 1, Len(pair))

Keys(out) ==
    LET ps == Pairs(out)
    IN [i \in 1..Len(ps) |-> KeyOf(ps[i])]

KeySet(out) ==
    LET ks == Keys(out)
    IN { ks[i] : i \in 1..Len(ks) }

HasKey(out, key) == key \in KeySet(out)

\* The value of the first pair of the query string with the given key.
ValueAt(out, key) ==
    LET ps == Pairs(out)
    IN ValueOf(ps[CHOOSE i \in 1..Len(ps) :
                     KeyOf(ps[i]) = key /\ \A j \in 1..(i - 1) : KeyOf(ps[j]) # key])

\* toString has returned a string.
Returned == ret.op = "toString" /\ ret.type = "normal"

(***************************************************************************)
(* The claims.                                                             *)
(***************************************************************************)
\* The fixed sequence of keys of the wire contract.
FixedSequence ==
    << <<"s","v">>, <<"s","s">>, <<"s","r","t">>, <<"s","p","r">>,
       <<"s","t">>, <<"s","e">>, <<"s","i","p">>, <<"s","i">>,
       <<"s","k","o","i","d">>, <<"s","k","t","i","d">>, <<"s","k","t">>,
       <<"s","k","e">>, <<"s","k","s">>, <<"s","k","v">>,
       <<"s","r">>, <<"s","p">>, <<"s","i","g">>,
       <<"r","s","c","c">>, <<"r","s","c","d">>, <<"r","s","c","e">>,
       <<"r","s","c","l">>, <<"r","s","c","t">>,
       <<"s","a","o","i","d">>, <<"s","c","i","d">>, <<"t","n">>,
       <<"s","r","k">>, <<"s","p","k">>, <<"e","p","k">>, <<"e","r","k">> >>

\* The place of a key in the fixed sequence, 0 when it is not in it.
Place(key) ==
    IF \E i \in 1..Len(FixedSequence) : FixedSequence[i] = key
    THEN CHOOSE i \in 1..Len(FixedSequence) : FixedSequence[i] = key
    ELSE 0

\* C1: the keys of the pairs of every toString() output are keys of the
\* fixed sequence sv, ss, ..., tn, srk, spk, epk, erk, in strictly
\* increasing place: in its relative order and each at most once.
C1_KeysInFixedOrder ==
    Returned =>
        LET ks == Keys(ret.value.chars)
        IN \A i \in 1..Len(ks) :
              /\ Place(ks[i]) > 0
              /\ \A j \in (i + 1)..Len(ks) : Place(ks[i]) < Place(ks[j])

\* C1's case: an output that holds srk and spk, srk right before spk.
C1_Witness ==
    /\ Returned
    /\ LET ks == Keys(ret.value.chars)
       IN \E i \in 1..(Len(ks) - 1) : ks[i] = <<"s","r","k">> /\ ks[i + 1] = <<"s","p","k">>

\* The field of the object that the wire contract writes under a key
\* (undefined for a key this model does not populate).
Field(this, key) ==
    CASE key = <<"s","v">> -> this.version
      [] key = <<"s","s">> -> this.services
      [] key = <<"s","r","t">> -> this.resourceTypes
      [] key = <<"s","p","r">> -> this.protocol
      [] key = <<"s","t">> -> this.startsOn
      [] key = <<"s","e">> -> this.expiresOn
      [] key = <<"s","i","p">> -> this.ipRangeInner
      [] key = <<"s","i">> -> this.identifier
      [] key = <<"s","k","o","i","d">> -> this.signedOid
      [] key = <<"s","k","t","i","d">> -> this.signedTenantId
      [] key = <<"s","k","t">> -> this.signedStartsOn
      [] key = <<"s","k","e">> -> this.signedExpiresOn
      [] key = <<"s","k","s">> -> this.signedService
      [] key = <<"s","k","v">> -> this.signedVersion
      [] key = <<"s","p">> -> this.permissions
      [] key = <<"s","i","g">> -> this.signature
      [] key = <<"s","a","o","i","d">> -> this.preauthorizedAgentObjectId
      [] key = <<"s","c","i","d">> -> this.correlationId
      [] key = <<"t","n">> -> this.tableName
      [] key = <<"s","r","k">> -> this.startRowKey
      [] key = <<"s","p","k">> -> this.startPartitionKey
      [] key = <<"e","p","k">> -> this.endPartitionKey
      [] key = <<"e","r","k">> -> this.endRowKey
      [] OTHER -> Undefined

\* The range start-end written as the wire format says: start alone when
\* end is absent or equal to start, else start, a hyphen, end.
WireRange(range) ==
    IF range.end = Undefined \/ range.end = range.start
    THEN range.start.chars
    ELSE range.start.chars \o <<"-">> \o range.end.chars

\* A field is present and non-empty: a non-empty string, a timestamp, or a
\* range whose wire format is non-empty.
PresentNonEmpty(this, h, key) ==
    LET f == Field(this, key)
    IN CASE f.tag = "undefined" -> FALSE
         [] f.tag = "string" -> f.chars # <<>>
         [] f.tag = "Date" -> TRUE
         [] f.tag = "object" -> WireRange(h[f.ref]) # <<>>

\* C2: in toString(), the pair of a key is in the output if and only if the
\* key's field is present and non-empty, and no pair of the output has an
\* empty key or an empty value.
C2_PairIffPresentNonEmpty ==
    Returned =>
        LET ps == Pairs(ret.value.chars)
            keys == KeySet(ret.value.chars)
        IN /\ \A n \in 1..Len(FixedSequence) :
                 (FixedSequence[n] \in keys) <=> PresentNonEmpty(sas, heap, FixedSequence[n])
           /\ \A i \in 1..Len(ps) :
                 /\ IndexOfChar(ps[i], "=") > 1
                 /\ ValueOf(ps[i]) # <<>>

\* C2's case: an empty-string field (permissions) gave no pair while a
\* non-empty one (tableName) gave its pair.
C2_Witness ==
    /\ Returned
    /\ sas.permissions = Str(<<>>)
    /\ ToBoolean(sas.tableName)
    /\ ~HasKey(ret.value.chars, <<"s","p">>)
    /\ HasKey(ret.value.chars, <<"t","n">>)

\* The constructor has been called.
Constructed == ctor # Undefined

\* C5, as claimed: a constructor call with an empty version or signature
\* produces no object, and no toString() output lacks sv or sig.
C5_MissingRejected ==
    /\ (Constructed /\ (~ToBoolean(ctor.version) \/ ~ToBoolean(ctor.signature)))
          => sas = Undefined
    /\ Returned => (HasKey(ret.value.chars, <<"s","v">>) /\ HasKey(ret.value.chars, <<"s","i","g">>))

\* C5, amended: the constructor checks nothing: every call, with an empty
\* version or signature too, produces an object holding both as given, and
\* toString() has sv (sig) exactly when the version (signature) given is
\* non-empty.
C5_MissingAccepted ==
    /\ Constructed =>
          /\ sas # Undefined
          /\ sas.version = ctor.version
          /\ sas.signature = ctor.signature
    /\ Returned =>
          /\ HasKey(ret.value.chars, <<"s","v">>) <=> ToBoolean(ctor.version)
          /\ HasKey(ret.value.chars, <<"s","i","g">>) <=> ToBoolean(ctor.signature)

\* C5's case: an object built with an empty version, whose toString()
\* output has sig and no sv.
C5_Witness ==
    /\ Returned
    /\ ctor.version = Str(<<>>)
    /\ ToBoolean(ctor.signature)
    /\ ~HasKey(ret.value.chars, <<"s","v">>)
    /\ HasKey(ret.value.chars, <<"s","i","g">>)

\* The six keys of the delegation key, each with the key's field it carries.
DelegationKeys ==
    { <<"s","k","o","i","d">>, <<"s","k","t","i","d">>, <<"s","k","t">>,
      <<"s","k","e">>, <<"s","k","s">>, <<"s","k","v">> }

KeyField(key, k) ==
    CASE k = <<"s","k","o","i","d">> -> key.signedObjectId
      [] k = <<"s","k","t","i","d">> -> key.signedTenantId
      [] k = <<"s","k","t">> -> key.signedStartsOn
      [] k = <<"s","k","e">> -> key.signedExpiresOn
      [] k = <<"s","k","s">> -> key.signedService
      [] k = <<"s","k","v">> -> key.signedVersion

\* C6, as claimed: each of skoid, sktid, skt, ske, sks, skv is in the
\* toString() output if and only if the options had a userDelegationKey.
C6_KeysIffKeySupplied ==
    Returned =>
        \A k \in DelegationKeys :
            HasKey(ret.value.chars, k) <=> ToBoolean(ctor.options.userDelegationKey)

\* C6, amended: without a userDelegationKey in the options none of the six
\* keys is in the output; with one, each of the six is in the output if and
\* only if the field of the delegation key it carries is non-empty.
C6_KeysOnlyUnderKey ==
    Returned =>
        LET key == ctor.options.userDelegationKey
            keys == KeySet(ret.value.chars)
        IN \A k \in DelegationKeys :
              (k \in keys) <=> (ToBoolean(key) /\ ToBoolean(KeyField(key, k)))

\* C6's case: a delegation key was supplied and all six keys are in the
\* output.
C6_Witness ==
    /\ Returned
    /\ ToBoolean(ctor.options.userDelegationKey)
    /\ \A k \in DelegationKeys : HasKey(ret.value.chars, k)

\* The six delegation-key fields of the object.
DelegationFields(this) ==
    << this.signedOid, this.signedTenantId, this.signedStartsOn,
       this.signedExpiresOn, this.signedService, this.signedVersion >>

\* C7: on every constructed object the six delegation-key fields are set
\* all together or not at all.
C7_DelegationFieldsAllOrNone ==
    sas # Undefined =>
        LET fs == DelegationFields(sas)
        IN \/ \A i \in 1..Len(fs) : fs[i] # Undefined
           \/ \A i \in 1..Len(fs) : fs[i] = Undefined

\* C7's case: an object built from options with a delegation key, all six
\* fields set.
C7_Witness ==
    /\ sas # Undefined
    /\ ToBoolean(ctor.options.userDelegationKey)
    /\ \A i \in 1..6 : DelegationFields(sas)[i] # Undefined

\* C10: the sip value of toString() is the range in its wire format
\* (percent-encoded): the start address alone when end is absent or equal
\* to start, otherwise start, one hyphen, end; without a range, or when the
\* wire format is empty, there is no sip.
C10_SipIsWireRange ==
    Returned =>
        LET out == ret.value.chars
            given == ctor.options.ipRange
        IN IF given = Undefined THEN ~HasKey(out, <<"s","i","p">>)
           ELSE LET wire == WireRange(heap[given.ref])
                IN IF wire = <<>> THEN ~HasKey(out, <<"s","i","p">>)
                   ELSE /\ HasKey(out, <<"s","i","p">>)
                        /\ ValueAt(out, <<"s","i","p">>) = EncodeChars(wire)

\* C10's case: a range whose end differs from its start, written as
\* start-end.
C10_Witness ==
    /\ Returned
    /\ ctor.options.ipRange # Undefined
    /\ heap[ctor.options.ipRange.ref].end # Undefined
    /\ heap[ctor.options.ipRange.ref].end # heap[ctor.options.ipRange.ref].start
    /\ HasKey(ret.value.chars, <<"s","i","p">>)
    /\ IndexOfChar(ValueAt(ret.value.chars, <<"s","i","p">>), "-") > 0

(***************************************************************************)
(* Reading a URL: scheme://authority, then the path up to '?', then the    *)
(* query string.                                                           *)
(***************************************************************************)
\* The first index from `from` on at which s holds character c, Len(s) + 1
\* when there is none.
IndexFrom(s, c, from) ==
    IF \E i \in from..Len(s) : s[i] = c
    THEN CHOOSE i \in from..Len(s) : s[i] = c /\ \A j \in from..(i - 1) : s[j] # c
    ELSE Len(s) + 1

\* Where the path starts: the first '/' after the "//" of the scheme.
PathStart(url) == IndexFrom(url, "/", IndexFrom(url, "/", 1) + 2)

URLPath(url) == SubSeq(url, PathStart(url), IndexFrom(url, "?", 1) - 1)

URLQuery(url) == SubSeq(url, IndexFrom(url, "?", 1), Len(url))

FilesSegment == <<"/","f","i","l","e","s","/">>

TestRunsSegment == <<"/","t","e","s","t","-","r","u","n","s","/">>

\* getLongRunningPoller has settled.
Dispatched == ret.op = "getLongRunningPoller"

RequestUrl == initialResponse.request.url.chars

FilePoller ==
    [tag |-> "FileUploadAndValidatePoller", client |-> client,
     initialResponse |-> initialResponse]

TestRunPoller ==
    [tag |-> "TestRunCompletionPoller", client |-> client,
     initialResponse |-> initialResponse]

NotLongRunningError ==
    [tag |-> "Error", name |-> "Error",
     message |-> "The Operation is not a long running operation."]

\* What a settled getLongRunningPoller gave: the kind of poller, or error.
Outcome(c) == IF c.type = "throw" THEN "error" ELSE c.value.tag

\* C3, as claimed: the PATH of the request URL decides: with '/files/' in
\* the path the file-validation poller, with '/test-runs/' and no '/files/'
\* in the path the test-run poller, for any other path the error.
C3_ClassifiedByPath ==
    Dispatched =>
        LET path == URLPath(RequestUrl)
        IN /\ includes(path, FilesSegment) =>
                 (ret.type = "normal" /\ ret.value = FilePoller)
           /\ (includes(path, TestRunsSegment) /\ ~includes(path, FilesSegment)) =>
                 (ret.type = "normal" /\ ret.value = TestRunPoller)
           /\ (~includes(path, TestRunsSegment) /\ ~includes(path, FilesSegment)) =>
                 (ret.type = "throw" /\ ret.value = NotLongRunningError)

\* C3, amended: the whole request URL string (path and query string)
\* decides: with '/files/' anywhere in the URL the file-validation poller,
\* with '/test-runs/' and no '/files/' in the URL the test-run poller, for
\* any other URL the error.
C3_ClassifiedByUrl ==
    Dispatched =>
        /\ includes(RequestUrl, FilesSegment) =>
              (ret.type = "normal" /\ ret.value = FilePoller)
        /\ (includes(RequestUrl, TestRunsSegment) /\ ~includes(RequestUrl, FilesSegment)) =>
              (ret.type = "normal" /\ ret.value = TestRunPoller)
        /\ (~includes(RequestUrl, TestRunsSegment) /\ ~includes(RequestUrl, FilesSegment)) =>
              (ret.type = "throw" /\ ret.value = NotLongRunningError)

\* C3's case: a test-run URL without '/files/' got the test-run poller.
C3_Witness ==
    /\ Dispatched
    /\ includes(URLPath(RequestUrl), TestRunsSegment)
    /\ ~includes(RequestUrl, FilesSegment)
    /\ ret.value = TestRunPoller

\* C4: a response whose request URL has neither the file-upload nor the
\* test-run shape ends in the error 'The Operation is not a long running
\* operation.' with no poller built; and whatever the input, the call
\* either throws that error or returns one of the two pollers, built by
\* exactly one factory call.
C4_UnknownShapeThrows ==
    Dispatched =>
        /\ (~includes(RequestUrl, FilesSegment) /\ ~includes(RequestUrl, TestRunsSegment)) =>
              /\ ret.type = "throw"
              /\ ret.value = NotLongRunningError
              /\ calls = <<>>
        /\ ret.type = "throw" => (ret.value = NotLongRunningError /\ calls = <<>>)
        /\ ret.type = "normal" =>
              /\ ret.value \in { FilePoller, TestRunPoller }
              /\ Len(calls) = 1

\* C4's case: an unrelated path (/widgets/1) ended in the error.
C4_Witness ==
    /\ Dispatched
    /\ URLPath(RequestUrl) = <<"/","w","i","d","g","e","t","s","/","1">>
    /\ URLQuery(RequestUrl) = <<>>
    /\ ret.type = "throw"
    /\ calls = <<>>

\* C8: a request URL that holds both '/files/' and '/test-runs/' gets the
\* file-validation poller, and getTestRunCompletionPoller is not called.
C8_FileUploadFirst ==
    (Dispatched /\ includes(RequestUrl, FilesSegment) /\ includes(RequestUrl, TestRunsSegment))
        => /\ ret.type = "normal"
           /\ ret.value = FilePoller
           /\ \A i \in 1..Len(calls) : calls[i].fn # "getTestRunCompletionPoller"

\* C8's case: a path with both segments was dispatched.
C8_Witness ==
    /\ Dispatched
    /\ includes(URLPath(RequestUrl), FilesSegment)
    /\ includes(URLPath(RequestUrl), TestRunsSegment)
    /\ Len(calls) = 1
    /\ calls[1].fn = "getFileValidationPoller"

\* C9, as claimed: two responses whose request URLs have the same path get
\* the same classification, whatever their host, query string, headers and
\* body.
C9_PathAloneDecides ==
    Dispatched =>
        \A other \in Responses :
            URLPath(other.request.url.chars) = URLPath(RequestUrl)
                => Outcome(getLongRunningPoller(client, other)) = Outcome(ret)

\* C9, amended: the request URL as one string decides, its host and its
\* query string as much as its path: two responses whose request URLs are
\* the same string get the same classification, whatever their headers
\* and body.
C9_WholeUrlDecides ==
    Dispatched =>
        \A other \in Responses :
            other.request.url = initialResponse.request.url
                => Outcome(getLongRunningPoller(client, other)) = Outcome(ret)

\* C9's case: a request to the host 'files' whose path and query hold no
\* segment was dispatched as a file upload; a response of the same URL
\* with other headers and another body is classified the same, and one of
\* the same path and query on another host is not.
C9_Witness ==
    /\ Dispatched
    /\ Outcome(ret) = "FileUploadAndValidatePoller"
    /\ ~includes(URLPath(RequestUrl) \o URLQuery(RequestUrl), FilesSegment)
    /\ \E other \in Responses :
          /\ other.request.url = initialResponse.request.url
          /\ other.headers # initialResponse.headers
          /\ other.body # initialResponse.body
          /\ Outcome(getLongRunningPoller(client, other)) = "FileUploadAndValidatePoller"
    /\ \E other \in Responses :
          /\ URLPath(other.request.url.chars) = URLPath(RequestUrl)
          /\ URLQuery(other.request.url.chars) = URLQuery(RequestUrl)
          /\ other.request.url # initialResponse.request.url
          /\ Outcome(getLongRunningPoller(client, other)) = "error"

\* C11: toString() is repeatable: all the calls made on an object so far,
\* whatever reads of ipRange lie between them, completed alike, with the
\* identical string.
C11_ToStringRepeatable ==
    \A i \in 1..Len(outs) : \A j \in 1..Len(outs) : outs[i] = outs[j]

\* C11's case: toString() has returned a non-empty string twice, the second
\* time as the last operation, and ipRange has been read before it.
C11_Witness ==
    /\ Len(outs) >= 2
    /\ outs[1].type = "normal"
    /\ outs[1].value.chars # <<>>
    /\ ret.op = "toString"
    /\ Len(heap) >= 2

\* The number of fields of the object that are present and non-empty: the
\* number of pairs toString() emits.
EmittedPairs(this, h) ==
    Cardinality({ n \in 1..Len(FixedSequence) : PresentNonEmpty(this, h, FixedSequence[n]) })

\* The number of '&' characters in a string.
Separators(out) == Cardinality({ i \in 1..Len(out) : out[i] = "&" })

\* C12: a toString() output of n >= 1 pairs neither starts nor ends with
\* '&', has no two '&' side by side and holds exactly n - 1 of them; with
\* no pair it is the empty string.
C12_SeparatorsBetweenPairs ==
    Returned =>
        LET out == ret.value.chars
            n == EmittedPairs(sas, heap)
        IN IF n = 0 THEN out = <<>>
           ELSE /\ out # <<>>
                /\ out[1] # "&"
                /\ out[Len(out)] # "&"
                /\ \A i \in 1..(Len(out) - 1) : ~(out[i] = "&" /\ out[i + 1] = "&")
                /\ Separators(out) = n - 1

\* C12's case: an output of four pairs and three separators, one value of
\* which holds an '&' of its own before it is percent-encoded.
C12_Witness ==
    /\ Returned
    /\ EmittedPairs(sas, heap) = 4
    /\ sas.tableName = Str(<<"a","&","b","=","c">>)
    /\ Separators(ret.value.chars) = 3

\* C13: a constructed object keeps the fields the constructor gave it from
\* its arguments, whatever toString() calls and reads of ipRange follow:
\* the public fields, the delegation-key fields and ipRangeInner.
C13_NeverMutated ==
    sas # Undefined => sas = SasQueryParameters(ctor.version, ctor.signature, ctor.options)

\* C13's case: an object with a range and a delegation key, after ipRange
\* was read and toString() has returned.
C13_Witness ==
    /\ Returned
    /\ ToBoolean(sas.ipRangeInner)
    /\ ToBoolean(sas.signedTenantId)
    /\ Len(heap) >= 2

\* A step that is a read of ipRange returning an object.
ReadStep == ret'.op = "ipRange" /\ ret'.value # Undefined /\ ret' # ret

\* C20: a read of ipRange returns a new object holding the start and end of
\* the stored range; and no step, a write to such an object included,
\* changes the stored range, what a read of ipRange gives, or the sip value
\* toString() writes.
C20_ViewIsReadOnly ==
    [][sas # Undefined =>
          /\ ReadStep =>
                /\ ret'.value.ref \notin 1..Len(heap)
                /\ heap'[ret'.value.ref] = ipRange(sas, heap)
          /\ ToBoolean(sas.ipRangeInner) =>
                heap'[sas.ipRangeInner.ref] = heap[sas.ipRangeInner.ref]
          /\ ipRange(sas', heap') = ipRange(sas, heap)
          /\ sipValue(sas', heap') = sipValue(sas, heap)]_vars

\* C20's case: the caller has written start and end of the object a read
\* returned, and a later toString() has the stored range as its sip.
C20_Witness ==
    /\ Returned
    /\ Len(heap) >= 2
    /\ heap[2].start \in ViewWrites
    /\ heap[2].end \in ViewWrites
    /\ heap[1].start \notin ViewWrites
    /\ HasKey(ret.value.chars, <<"s","i","p">>)
    /\ ValueAt(ret.value.chars, <<"s","i","p">>) = EncodeChars(WireRange(heap[1]))

\* C14: under every interleaving of the steps of the toString() calls in
\* progress on one object, a call that has completed has completed as one
\* call run alone does: with the same string, or the same error.
C14_ConcurrentCallsAgree ==
    \A c \in Callers :
        frames[c].pc = "done" => frames[c].result = toString(sas, heap)

\* C14's case: one call has returned its string of five pairs while another
\* call on the same object is in the middle of its loop, pairs pushed.
C14_Witness ==
    /\ \E c \in Callers :
          /\ frames[c].pc = "done"
          /\ frames[c].result.type = "normal"
          /\ Len(Pairs(frames[c].result.value.chars)) = 5
    /\ \E d \in Callers :
          /\ frames[d].pc = "loop"
          /\ frames[d].i \in 2..Len(params)
          /\ frames[d].queries # <<>>

\* The four timestamp keys.
TimestampKeys == { <<"s","t">>, <<"s","e">>, <<"s","k","t">>, <<"s","k","e">> }

\* A date written to whole seconds: YYYY-MM-DDTHH:mm:ssZ.
WholeSeconds(date) ==
    Pad(date.Y, 4) \o <<"-">> \o Pad(date.Mo, 2) \o <<"-">> \o Pad(date.D, 2)
    \o <<"T">> \o Pad(date.h, 2) \o <<":">> \o Pad(date.mi, 2) \o <<":">> \o Pad(date.s, 2)
    \o <<"Z">>

\* C15: in a toString() output each of st, se, skt, ske is there exactly
\* when its timestamp field is set, and its value is then the timestamp
\* written to whole seconds, with no fractional part, percent-encoded;
\* a field that is not set gives no pair and does not make the call fail.
C15_TimestampsTruncated ==
    Returned =>
        LET out == ret.value.chars
        IN \A k \in TimestampKeys :
              IF Field(sas, k) = Undefined THEN ~HasKey(out, k)
              ELSE /\ HasKey(out, k)
                   /\ ValueAt(out, k) = EncodeChars(WholeSeconds(Field(sas, k)))
                   /\ IndexOfChar(ValueAt(out, k), ".") = 0

\* C15's case: st, skt and ske written from timestamps, one of them with
\* milliseconds to drop, and se left out for want of a field.
C15_Witness ==
    /\ Returned
    /\ sas.startsOn # Undefined
    /\ sas.startsOn.ms # 0
    /\ sas.expiresOn = Undefined
    /\ HasKey(ret.value.chars, <<"s","t">>)
    /\ HasKey(ret.value.chars, <<"s","k","t">>)
    /\ HasKey(ret.value.chars, <<"s","k","e">>)
    /\ ~HasKey(ret.value.chars, <<"s","e">>)

\* The keys of the fixed sequence this model does not populate.
ReservedKeys ==
    { <<"s","r">>, <<"r","s","c","c">>, <<"r","s","c","d">>, <<"r","s","c","e">>,
      <<"r","s","c","l">>, <<"r","s","c","t">> }

\* C16: no toString() output has a pair with the key sr, rscc, rscd, rsce,
\* rscl or rsct, whatever the constructor was given, a 'resource' option
\* included.
C16_ReservedKeysAbsent ==
    Returned => \A k \in ReservedKeys : ~HasKey(ret.value.chars, k)

\* C16's case: the options set 'resource' and a table name, and the output
\* has the table name and no sr.
C16_Witness ==
    /\ Returned
    /\ ToBoolean(ctor.options.resource)
    /\ HasKey(ret.value.chars, <<"t","n">>)
    /\ ~HasKey(ret.value.chars, <<"s","r">>)

\* The four keys of the partition-key/row-key bounds, each with the option
\* it is written from.
BoundOption(key) ==
    CASE key = <<"s","p","k">> -> "startPartitionKey"
      [] key = <<"s","r","k">> -> "startRowKey"
      [] key = <<"e","p","k">> -> "endPartitionKey"
      [] key = <<"e","r","k">> -> "endRowKey"

BoundKeys == { <<"s","p","k">>, <<"s","r","k">>, <<"e","p","k">>, <<"e","r","k">> }

\* C17: the constructor takes any part of a bound: every call produces an
\* object, and toString() has each of spk, srk, epk, erk exactly when the
\* option of that key alone was given non-empty, with the option's value
\* percent-encoded; a row key is written without its partition key.
C17_BoundKeysIndependent ==
    /\ Constructed => sas # Undefined
    /\ Returned =>
          \A k \in BoundKeys :
              LET given == ctor.options[BoundOption(k)]
              IN IF ToBoolean(given)
                 THEN /\ HasKey(ret.value.chars, k)
                      /\ ValueAt(ret.value.chars, k) = EncodeChars(given.chars)
                 ELSE ~HasKey(ret.value.chars, k)

\* C17's case: both row keys given and no partition key: the output has
\* srk and erk and neither spk nor epk.
C17_Witness ==
    /\ Returned
    /\ ToBoolean(ctor.options.startRowKey)
    /\ ToBoolean(ctor.options.endRowKey)
    /\ ~ToBoolean(ctor.options.startPartitionKey)
    /\ ~ToBoolean(ctor.options.endPartitionKey)
    /\ HasKey(ret.value.chars, <<"s","r","k">>)
    /\ HasKey(ret.value.chars, <<"e","r","k">>)
    /\ ~HasKey(ret.value.chars, <<"s","p","k">>)
    /\ ~HasKey(ret.value.chars, <<"e","p","k">>)

\* The text toString() has to write for a key: the string of the key's
\* field, the wire format of the range for sip; empty when there is none
\* (a timestamp is not text given by the caller).
GivenText(this, h, key) ==
    LET f == Field(this, key)
    IN CASE f.tag = "string" -> f.chars
         [] f.tag = "object" -> WireRange(h[f.ref])
         [] OTHER -> <<>>

\* Every non-empty text of the object is in the output under its key,
\* percent-encoded and not otherwise changed or checked.
PassedThrough(this, h, out) ==
    \A n \in 1..Len(FixedSequence) :
        LET text == GivenText(this, h, FixedSequence[n])
        IN text # <<>> =>
              /\ HasKey(out, FixedSequence[n])
              /\ ValueAt(out, FixedSequence[n]) = EncodeChars(text)

\* C18, as claimed: whatever the optional fields and their values, the
\* constructor returns an object and toString() returns a string in which
\* every value given is passed through.
C18_NeverFails ==
    /\ Constructed => sas # Undefined
    /\ ret.op = "toString" =>
          /\ ret.type = "normal"
          /\ PassedThrough(sas, heap, ret.value.chars)

\* What makes toString() fail at a key: a timestamp that is an Invalid
\* Date (the RangeError of the timestamp encoder), a text with a lone
\* surrogate (the URIError of encodeURIComponent); Undefined when the
\* value of the key can be written.
FailureAt(this, h, key) ==
    IF key \in TimestampKeys
    THEN (IF Field(this, key) # Undefined /\ ~Field(this, key).valid
          THEN [tag |-> "Error", name |-> "RangeError", message |-> "Invalid time value"]
          ELSE Undefined)
    ELSE (IF \E i \in 1..Len(GivenText(this, h, key)) :
                GivenText(this, h, key)[i] = LoneSurrogate
          THEN [tag |-> "Error", name |-> "URIError", message |-> "URI malformed"]
          ELSE Undefined)

\* The failure at the first key, in the order of the fixed sequence, whose
\* value cannot be written; Undefined when every value can.
FirstFailure(this, h) ==
    LET failing == { n \in 1..Len(FixedSequence) :
                        FailureAt(this, h, FixedSequence[n]) # Undefined }
    IN IF failing = {} THEN Undefined
       ELSE FailureAt(this, h,
                      FixedSequence[CHOOSE n \in failing : \A m \in failing : n <= m])

\* C18, amended: the constructor returns an object whatever the optional
\* fields and their values; toString() checks no value and returns a
\* string in which every non-empty text is passed through percent-encoded,
\* a malformed IP string included, unless a value to write cannot be
\* encoded, a text holding a lone surrogate or a timestamp that is an
\* Invalid Date: then, and only then, toString() fails, with the error of
\* the first such value in key order (URIError of encodeURIComponent,
\* RangeError of the timestamp encoder).
C18_FailsOnlyOnUnencodable ==
    /\ Constructed => sas # Undefined
    /\ ret.op = "constructor" => ret.type = "normal"
    /\ ret.op = "toString" =>
          IF FirstFailure(sas, heap) # Undefined
          THEN /\ ret.type = "throw"
               /\ ret.value = FirstFailure(sas, heap)
          ELSE /\ ret.type = "normal"
               /\ PassedThrough(sas, heap, ret.value.chars)

\* C18's case: a range whose start is no IP address, written out as given.
C18_Witness ==
    /\ Returned
    /\ ctor.options.ipRange # Undefined
    /\ heap[ctor.options.ipRange.ref].start = Str(<<"3","0","0",".","1",".","x">>)
    /\ ValueAt(ret.value.chars, <<"s","i","p">>) = <<"3","0","0",".","1",".","x">>

\* The options of the object define tableName, permissions and expiresOn
\* and nothing else, and version, signature, tableName and permissions are
\* non-empty.
OnlyTableScenario ==
    /\ ToBoolean(ctor.version)
    /\ ToBoolean(ctor.signature)
    /\ ToBoolean(ctor.options.tableName)
    /\ ToBoolean(ctor.options.permissions)
    /\ ToBoolean(ctor.options.expiresOn)
    /\ \A name \in OptionNames \ { "tableName", "permissions", "expiresOn" } :
          ctor.options[name] = Undefined

\* The arguments of the scenario: "2023-01-01", "SIGXYZ", {tableName: "T1",
\* permissions: "r", expiresOn: 2024-01-01T00:00:00Z}.
ScenarioArguments ==
    /\ ctor.version = Str(<<"2","0","2","3","-","0","1","-","0","1">>)
    /\ ctor.signature = Str(<<"S","I","G","X","Y","Z">>)
    /\ ctor.options.tableName = Str(<<"T","1">>)
    /\ ctor.options.permissions = Str(<<"r">>)
    /\ ctor.options.expiresOn = Date(2024, 1, 1, 0, 0, 0, 0)

ScenarioOutput ==
    <<"s","v","=","2","0","2","3","-","0","1","-","0","1","&",
      "s","e","=","2","0","2","4","-","0","1","-","0","1",
      "T","0","0","%","3","A","0","0","%","3","A","0","0","Z","&",
      "s","p","=","r","&","s","i","g","=","S","I","G","X","Y","Z","&",
      "t","n","=","T","1">>

\* C19: for an object built with only version, signature, tableName,
\* permissions and expiresOn, toString() returns the five pairs sv, se, sp,
\* sig, tn in this order, each value percent-encoded (the expiry to whole
\* seconds); for the arguments of the scenario it is
\* sv=2023-01-01&se=2024-01-01T00%3A00%3A00Z&sp=r&sig=SIGXYZ&tn=T1.
C19_TableScenario ==
    (ret.op = "toString" /\ OnlyTableScenario) =>
        /\ ret.type = "normal"
        /\ ret.value.chars =
              <<"s","v","=">> \o EncodeChars(ctor.version.chars) \o <<"&">>
              \o <<"s","e","=">> \o EncodeChars(WholeSeconds(ctor.options.expiresOn)) \o <<"&">>
              \o <<"s","p","=">> \o EncodeChars(ctor.options.permissions.chars) \o <<"&">>
              \o <<"s","i","g","=">> \o EncodeChars(ctor.signature.chars) \o <<"&">>
              \o <<"t","n","=">> \o EncodeChars(ctor.options.tableName.chars)
        /\ ScenarioArguments => ret.value.chars = ScenarioOutput

\* C19's case: toString() of the object of the scenario has returned the
\* scenario's string.
C19_Witness ==
    /\ Returned
    /\ OnlyTableScenario
    /\ ScenarioArguments
    /\ ret.value.chars = ScenarioOutput

\* C23: preauthorizedAgentObjectId and correlationId are kept only with a
\* delegation key: without a userDelegationKey in the options both fields
\* of the object are undefined and no toString() output has saoid or scid,
\* whatever the options gave for them; with a key they are the options'.
C23_AgentIdsOnlyUnderKey ==
    Constructed =>
        IF ToBoolean(ctor.options.userDelegationKey)
        THEN /\ sas.preauthorizedAgentObjectId = ctor.options.preauthorizedAgentObjectId
             /\ sas.correlationId = ctor.options.correlationId
        ELSE /\ sas.preauthorizedAgentObjectId = Undefined
             /\ sas.correlationId = Undefined
             /\ Returned =>
                   /\ ~HasKey(ret.value.chars, <<"s","a","o","i","d">>)
                   /\ ~HasKey(ret.value.chars, <<"s","c","i","d">>)

\* C23's case: the options gave both values and no delegation key, and
\* toString() has returned without saoid and scid.
C23_Witness ==
    /\ Returned
    /\ ~ToBoolean(ctor.options.userDelegationKey)
    /\ ToBoolean(ctor.options.preauthorizedAgentObjectId)
    /\ ToBoolean(ctor.options.correlationId)
    /\ sas.preauthorizedAgentObjectId = Undefined
    /\ ~HasKey(ret.value.chars, <<"s","a","o","i","d">>)
    /\ ~HasKey(ret.value.chars, <<"s","c","i","d">>)

\* The number of '=' characters in a pair.
EqualSigns(pair) == Cardinality({ i \in 1..Len(pair) : pair[i] = "=" })

\* The characters that have a meaning in a query string or end it.
QueryMetaChars == { "&", "=", "#", " " }

\* C24: a field value cannot inject query parameters: the output of
\* toString() has as many '&'-separated pairs as the object has present,
\* non-empty fields, each pair has exactly one '=', and the output has no
\* '#' and no space, whatever characters the values contain.
C24_NoInjectedPairs ==
    Returned =>
        LET out == ret.value.chars
            ps == Pairs(out)
        IN /\ Len(ps) = EmittedPairs(sas, heap)
           /\ \A i \in 1..Len(ps) : EqualSigns(ps[i]) = 1
           /\ \A i \in 1..Len(out) : out[i] \notin { "#", " " }

\* C24's case: values holding '&', '=', '#' and a space went through
\* toString(), which gave one pair for each of the two fields.
C24_Witness ==
    /\ Returned
    /\ sas.tableName = Str(<<"a","&","b","=","c">>)
    /\ sas.startPartitionKey = Str(<<"p"," ","#","1">>)
    /\ \E c \in QueryMetaChars : \E i \in 1..Len(sas.tableName.chars) : sas.tableName.chars[i] = c
    /\ Len(Pairs(ret.value.chars)) = 2
    /\ HasKey(ret.value.chars, <<"t","n">>)
    /\ HasKey(ret.value.chars, <<"s","p","k">>)

(***************************************************************************)
(* SpecAliased: the caller keeps the range object it passed in the options *)
(* and writes to it after construction.                                    *)
(***************************************************************************)
\* The caller assigns to start or end of the SasIPRange object it passed as
\* options.ipRange.  The constructor stored that very object
\* (`this.ipRangeInner = options.ipRange`), so the write is to the stored
\* range.
SetOptionsRangeField ==
    /\ sas # Undefined
    /\ ToBoolean(ctor.options.ipRange)
    /\ \E field \in { "start", "end" }, v \in ViewWrites :
          /\ heap[ctor.options.ipRange.ref][field] # v
          /\ heap' = [heap EXCEPT ![ctor.options.ipRange.ref] = [@ EXCEPT ![field] = v]]
    /\ UNCHANGED <<ctor, sas, ret, outs, frames, initialResponse, calls, polling, log, pager>>

NextAliased == ConstructForCaller \/ ToString \/ GetIpRange \/ SetOptionsRangeField

SpecAliased == Init /\ [][NextAliased]_vars

\* C25, as claimed: what toString() writes depends only on the option
\* values at construction: no step after construction, a write by the
\* caller to start or end of the range object it passed in the options
\* included, changes the sip value toString() writes or what a read of
\* ipRange gives.
C25_OptionsRangeDetached ==
    [][sas # Undefined =>
          /\ sipValue(sas', heap') = sipValue(sas, heap)
          /\ ipRange(sas', heap') = ipRange(sas, heap)]_vars

\* C25's case: the caller has written 9.9.9.9 to the start of the range it
\* passed, and a later toString() wrote it as the sip value.
C25_Witness ==
    /\ Returned
    /\ ToBoolean(ctor.options.ipRange)
    /\ heap[ctor.options.ipRange.ref].start \in ViewWrites
    /\ heap[ctor.options.ipRange.ref].end = Undefined
    /\ HasKey(ret.value.chars, <<"s","i","p">>)
    /\ ValueAt(ret.value.chars, <<"s","i","p">>) = <<"9",".","9",".","9",".","9">>

\* The names of the two poller factories.
PollerFactories == { "getFileValidationPoller", "getTestRunCompletionPoller" }

\* C21: the dispatcher does no polling: a call of getLongRunningPoller
\* makes at most one call, the construction of a poller: exactly one when
\* it returns a poller and none when it throws, so no poll request and no
\* sleep; and as long as the caller has not invoked pollUntilDone() on a
\* returned poller, no request has been sent and no sleep made.
C21_DispatcherDoesNotPoll ==
    /\ Len(calls) <= 1
    /\ \A i \in 1..Len(calls) : calls[i].fn \in PollerFactories
    /\ Dispatched =>
          /\ ret.type = "normal" => Len(calls) = 1
          /\ ret.type = "throw" => Len(calls) = 0
    /\ polling.state = "none" => (polling.requests = 0 /\ polling.sleeps = 0)
    /\ polling.requests > 0 =>
          polling.poller.tag \in
              { "FileUploadAndValidatePoller", "TestRunCompletionPoller", "FileUploadPoller" }

\* C21's case: the dispatcher built one poller and returned it, nothing
\* polled; and later the caller's pollUntilDone() on it has sent requests
\* and slept.
C21_Witness ==
    /\ Len(calls) = 1
    /\ polling.poller # Undefined
    /\ polling.poller.tag = "FileUploadAndValidatePoller"
    /\ polling.poller.initialResponse = initialResponse
    /\ polling.requests = 2
    /\ polling.sleeps = 1

\* C22: pollUntilDone() of the file-upload poller completes only in a
\* terminal state: whenever it has resolved, after at least one status
\* request, the status of the file it resolved with is none of 'uploaded',
\* 'pending' and 'running'.
C22_ResolvesOnlyTerminal ==
    (ret.op = "pollUntilDone" /\ ret.type = "normal") =>
        /\ ret.value.status \notin { "uploaded", "pending", "running" }
        /\ polling.state = "resolved"
        /\ polling.result = ret.value
        /\ polling.requests >= 1

\* C22's case: the file poller met a non-terminal status, slept, polled
\* again and resolved with a processed file.
C22_Witness ==
    /\ ret.op = "pollUntilDone"
    /\ ret.type = "normal"
    /\ polling.poller.tag = "FileUploadPoller"
    /\ polling.sleeps >= 1
    /\ ret.value.status = "processed"

(***************************************************************************)
(* SpecCredential: DefaultAzureCredential in the browser build.            *)
(***************************************************************************)
\* The one error object of the module, created when the module is loaded.
BrowserNotSupportedError ==
    Error("DefaultAzureCredential is not supported in the browser. Use InteractiveBrowserCredential instead.")

\* formatError(scope, error): the message written for an error.
formatError(scope, error) == [tag |-> "formatError", scope |-> scope, error |-> error]

\* ChainedTokenCredential's constructor, called as super() without sources:
\* it gives the new object.
ChainedTokenCredential == Normal([tag |-> "DefaultAzureCredential", sources |-> <<>>])

\* The constructor returning the object after it has logged.
DefaultAzureCredential_returnsInstance(tokenCredentialOptions, l) ==
    LET this == ChainedTokenCredential
    IN [type |-> this.type, value |-> this.value,
        log |-> Append(l, [logger |-> "DefaultAzureCredential", method |-> "info",
                           message |-> formatError("", BrowserNotSupportedError)])]

\* new DefaultAzureCredential(options) with l the log so far: how it
\* completes and the log it leaves.
DefaultAzureCredential(tokenCredentialOptions, l) ==
    LET this == ChainedTokenCredential
    IN IF this.type = "throw" THEN [type |-> "throw", value |-> this.value, log |-> l]
       ELSE [type |-> "throw", value |-> BrowserNotSupportedError,
             log |-> Append(l, [logger |-> "DefaultAzureCredential", method |-> "info",
                                message |-> formatError("", BrowserNotSupportedError)])]

\* getToken() with l the log so far.
getToken(l) ==
    [type |-> "throw", value |-> BrowserNotSupportedError,
     log |-> Append(l, [logger |-> "DefaultAzureCredential", method |-> "getToken.info",
                        message |-> formatError("", BrowserNotSupportedError)])]

\* The arguments the constructor is called with: none, or an options bag.
TokenCredentialOptions ==
    { Undefined,
      [tag |-> "TokenCredentialOptions", authorityHost |-> Undefined],
      [tag |-> "TokenCredentialOptions",
       authorityHost |-> Str(<<"h","t","t","p","s",":","/","/","l","o","g","i","n">>)],
      [tag |-> "TokenCredentialOptions", authorityHost |-> Str(<<>>)] }

NewDefaultAzureCredential ==
    /\ Len(log) < MaxLog
    /\ \E options \in TokenCredentialOptions :
          LET r == DefaultAzureCredential(options, log)
          IN /\ ctor' = [tag |-> "arguments", options |-> options]
             /\ ret' = Completion("DefaultAzureCredential", r)
             /\ log' = r.log
    /\ UNCHANGED <<sas, heap, outs, frames, initialResponse, calls, polling, pager>>

\* getToken() called on the prototype, the only way to reach it.
GetToken ==
    /\ Len(log) < MaxLog
    /\ LET r == getToken(log)
       IN /\ ret' = Completion("getToken", r)
          /\ log' = r.log
    /\ UNCHANGED <<ctor, sas, heap, outs, frames, initialResponse, calls, polling, pager>>

NextCredential == NewDefaultAzureCredential \/ GetToken

SpecCredential == Init /\ [][NextCredential]_vars

\* The error every call ends in.
NotSupportedInBrowser ==
    [tag |-> "Error", name |-> "Error",
     message |-> "DefaultAzureCredential is not supported in the browser. Use InteractiveBrowserCredential instead."]

\* C26: every call of the constructor, whatever the options, and every
\* call of getToken writes exactly one message to the logger and then
\* throws the module's one BrowserNotSupportedError: no call returns an
\* instance or a token.
C26_AlwaysNotSupported ==
    [][(log' # log \/ ret' # ret \/ ctor' # ctor) =>
          /\ ret'.op \in { "DefaultAzureCredential", "getToken" }
          /\ ret'.type = "throw"
          /\ ret'.value = NotSupportedInBrowser
          /\ Len(log') = Len(log) + 1
          /\ SubSeq(log', 1, Len(log)) = log
          /\ log'[Len(log')].message.error = NotSupportedInBrowser
          /\ log'[Len(log')].method =
                (IF ret'.op = "getToken" THEN "getToken.info" ELSE "info")]_vars

\* C26's case: a constructor call with options and a getToken call have
\* each logged once and thrown the error.
C26_Witness ==
    /\ ctor # Undefined
    /\ ToBoolean(ctor.options)
    /\ ret.op = "getToken"
    /\ ret.type = "throw"
    /\ ret.value = NotSupportedInBrowser
    /\ Len(log) = 2
    /\ log[1].method = "info"
    /\ log[2].method = "getToken.info"

(***************************************************************************)
(* SpecPaging: ApplyUpdateForResourceGroupImpl.list and the iterators it   *)
(* returns.  An async generator is its state with what it holds and the    *)
(* queue of the calls made on it that have not settled.  The generators    *)
(* run in jobs of the microtask queue, which is first in, first out: a     *)
(* step of the model is a call of the caller, the settling of a request,   *)
(* or the job at the head of the queue, which runs a generator from the    *)
(* await it stopped at to its next await, to a yield with no call queued   *)
(* or to its end.  Every await is a stop, fulfilled or not: the await of   *)
(* `this._list(...)` (awaiting, then answered once the request has         *)
(* settled), of the operand of `yield result.value || []` (yielding), of   *)
(* the page generator's next() in `for await` (awaiting, then              *)
(* forAwaitSettled), of the array iterator's element and of its result in  *)
(* `yield* page` (awaitingElement, awaitingResult), and of the value of a  *)
(* return() (awaitingReturn).  The caller's callbacks, hence calls and the *)
(* settling of requests, can run between any two jobs.  Calls made on a    *)
(* running generator are queued; a job settles every call the code settles *)
(* without an await in between.                                            *)
(***************************************************************************)
Array(items) == [tag |-> "array", items |-> items]

ApplyUpdate(name) == [tag |-> "ApplyUpdate", name |-> name]

\* `a || b`.
Or(a, b) == IF ToBoolean(a) THEN a ELSE b

\* { done, value }, the result of an iterator's next().
IterResult(done, value) == [tag |-> "IteratorResult", done |-> done, value |-> value]

MaxPageSizeNotSupported == Error("maxPageSize is not supported by this operation.")

\* this.client.sendOperationRequest({ resourceGroupName, options },
\* listOperationSpec): the request as sent.
ListRequest(resourceGroupName, options) ==
    [httpMethod |-> "GET",
     path |-> "/subscriptions/{subscriptionId}/resourceGroups/{resourceGroupName}/providers/Microsoft.Maintenance/applyUpdates",
     resourceGroupName |-> resourceGroupName, options |-> options]

\* The calls on a generator: next(), return(value), throw(error).
NextCall == [method |-> "next", value |-> Undefined]

ReturnCall(value) == [method |-> "return", value |-> value]

ThrowCall(error) == [method |-> "throw", value |-> error]

\* A listPagingPage generator just created: no statement of its body run.
NewPageGenerator ==
    [state |-> "suspendedStart", sent |-> <<>>, received |-> Undefined,
     page |-> Undefined, yielded |-> <<>>, nexts |-> 0, closed |-> FALSE,
     waiting |-> <<>>]

\* The completion of a call named op.
Settlement(op, c) == [op |-> op, type |-> c.type, value |-> c.value]

\* A generator g whose body has ended takes up the calls queued on it, the
\* oldest first, in the job that ended it: next() settles with done,
\* throw(e) with e; return(v) awaits v first, so the job ends there, with
\* the return and the calls behind it unsettled.  prefix names the calls of
\* this kind of generator; done holds the completions of the job so far.
RECURSIVE drainQueue(_, _, _)
drainQueue(g, prefix, done) ==
    IF g.waiting = <<>>
    THEN [gen |-> [g EXCEPT !.state = "completed"], settled |-> done]
    ELSE LET c == Head(g.waiting)
         IN IF c.method = "return"
            THEN [gen |-> [g EXCEPT !.state = "awaitingReturn"], settled |-> done]
            ELSE drainQueue([g EXCEPT !.waiting = Tail(@)], prefix,
                            Append(done,
                                   Settlement(prefix \o c.method,
                                              IF c.method = "next"
                                              THEN Normal(IterResult(TRUE, Undefined))
                                              ELSE Throw(c.value))))

\* A listPagingPage generator that sends the request again when it is
\* resumed after its yield.
listPagingPage_afterYield_requestsAgain(g, resourceGroupName, options, done) ==
    LET c == Head(g.waiting)
    IN CASE c.method = "next" ->
               drainQueue([g EXCEPT !.nexts = @ + 1, !.waiting = Tail(@),
                                    !.sent = Append(@, ListRequest(resourceGroupName,
                                                                   options))],
                          "page.",
                          Append(done, Settlement("page.next",
                                                  Normal(IterResult(TRUE, Undefined)))))
         [] c.method = "throw" ->
               drainQueue([g EXCEPT !.closed = TRUE, !.waiting = Tail(@)], "page.",
                          Append(done, Settlement("page.throw", Throw(c.value))))
         [] c.method = "return" ->
               [gen |-> [g EXCEPT !.state = "awaitingReturn", !.closed = TRUE],
                settled |-> done]

\* The listPagingPage generator g, at its yield, takes up the oldest call
\* queued on it.  After `yield result.value || []` the body has nothing
\* left: next() ends it and settles with done; throw(e) ends it with e (the
\* body has no try); return(v) awaits v before it ends the body, so it
\* stays unsettled until a later job.  No request is sent.
listPagingPage_afterYield(g, resourceGroupName, options, done) ==
    LET c == Head(g.waiting)
    IN CASE c.method = "next" ->
               drainQueue([g EXCEPT !.nexts = @ + 1, !.waiting = Tail(@)], "page.",
                          Append(done, Settlement("page.next",
                                                  Normal(IterResult(TRUE, Undefined)))))
         [] c.method = "throw" ->
               drainQueue([g EXCEPT !.closed = TRUE, !.waiting = Tail(@)], "page.",
                          Append(done, Settlement("page.throw", Throw(c.value))))
         [] c.method = "return" ->
               [gen |-> [g EXCEPT !.state = "awaitingReturn", !.closed = TRUE],
                settled |-> done]

\* A call c made on the listPagingPage generator g: it joins the queue; a
\* generator that is running (stopped at an await of its body or at the
\* await of the value of a return) takes it up later.  Otherwise the
\* generator takes it up now.  From the start, next() runs
\* `result = await this._list(...)`: the request is sent and the call stays
\* unsettled; return(v) ends the generator and awaits v; throw(e) ends it
\* and settles with e.
listPagingPage_call(g, c, resourceGroupName, options) ==
    LET q == [g EXCEPT !.waiting = Append(@, c)]
    IN CASE g.state \in { "awaiting", "answered", "yielding", "awaitingReturn" } ->
               [gen |-> q, settled |-> <<>>]
         [] g.state = "suspendedStart" /\ c.method = "next" ->
               [gen |-> [q EXCEPT !.state = "awaiting", !.nexts = @ + 1,
                                  !.sent = Append(@, ListRequest(resourceGroupName,
                                                                 options))],
                settled |-> <<>>]
         [] g.state = "suspendedStart" /\ c.method = "return" ->
               [gen |-> [q EXCEPT !.state = "awaitingReturn", !.closed = TRUE],
                settled |-> <<>>]
         [] g.state = "suspendedStart" /\ c.method = "throw" ->
               drainQueue([q EXCEPT !.closed = TRUE], "page.", <<>>)
         [] g.state = "suspendedYield" ->
               listPagingPage_afterYield(q, resourceGroupName, options, <<>>)
         [] g.state = "completed" -> drainQueue(q, "page.", <<>>)

\* The request of the listPagingPage generator g settles with response:
\* the promise `this._list(...)` returned is settled, and the body goes on
\* in a later job.  Nothing settles here.
listPagingPage_respond(g, response) ==
    [gen |-> [g EXCEPT !.state = "answered", !.received = response], settled |-> <<>>]

\* The job that resumes `result = await this._list(...)`.  A failure ends
\* the body with the error, which settles the next() that sent the
\* request.  A response is assigned to result, and the body goes on to
\* `yield result.value || []`: the operand is computed, and the yield
\* awaits it, so the next() stays unsettled until a later job.
listPagingPage_answered(g) ==
    IF g.received.type = "throw"
    THEN drainQueue([g EXCEPT !.waiting = Tail(@)], "page.",
                    << Settlement("page.next", Throw(g.received.value)) >>)
    ELSE [gen |-> [g EXCEPT !.state = "yielding",
                            !.page = Or(g.received.value.value, Array(<<>>))],
          settled |-> <<>>]

\* The job that resumes the await of the operand of the yield: the page is
\* yielded, which settles the next() that sent the request, and the
\* generator goes on at once with the call queued behind it, if there is
\* one.
listPagingPage_yield(g, resourceGroupName, options) ==
    LET y == [g EXCEPT !.yielded = Append(@, g.page), !.waiting = Tail(@)]
        done == << Settlement("page.next", Normal(IterResult(FALSE, g.page))) >>
    IN IF y.waiting = <<>>
       THEN [gen |-> [y EXCEPT !.state = "suspendedYield"], settled |-> done]
       ELSE listPagingPage_afterYield(y, resourceGroupName, options, done)

\* The job that resumes the await of the value of a return(v): the return
\* settles with { done: true, value: v }, the generator has ended, and the
\* calls queued behind the return are taken up.
listPagingPage_returned(g) ==
    drainQueue([g EXCEPT !.waiting = Tail(@)], "page.",
               << Settlement("page.return",
                             Normal(IterResult(TRUE, Head(g.waiting).value))) >>)

\* The job of the listPagingPage generator g at the head of the microtask
\* queue: g goes on from the await it stopped at.
listPagingPage_resumed(g, resourceGroupName, options) ==
    CASE g.state = "answered" -> listPagingPage_answered(g)
      [] g.state = "yielding" -> listPagingPage_yield(g, resourceGroupName, options)
      [] g.state = "awaitingReturn" -> listPagingPage_returned(g)

\* A listPagingAll generator just created.
NewAllGenerator ==
    [state |-> "suspendedStart", inner |-> Undefined, step |-> Undefined,
     page |-> <<>>, index |-> 0, yielded |-> <<>>, nexts |-> 0, waiting |-> <<>>]

\* The body of listPagingAll ends, normally or with the error the page
\* generator threw: the call it was serving settles with c, and the calls
\* queued behind it, all of them next(), with done.
listPagingAll_end(g, c) ==
    drainQueue([g EXCEPT !.state = "completed", !.waiting = Tail(@)], "",
               << Settlement("next", c) >>)

\* The next() that `for await` called on the page generator of g has
\* settled with the completion c: `for await` awaits it, so the body of g
\* goes on in a later job.
forAwait(g, c) == [g EXCEPT !.state = "forAwaitSettled", !.step = c]

\* The job that resumes the await of `for await`.  A rejection ends the body
\* of g with the error; a result that is done ends the loop and the body;
\* otherwise the page is bound and `yield* page` starts: it asks the
\* array's iterator for an element and awaits.
listPagingAll_forAwait(g) ==
    IF g.step.type = "throw"
    THEN listPagingAll_end(g, Throw(g.step.value))
    ELSE IF g.step.value.done
    THEN listPagingAll_end(g, Normal(IterResult(TRUE, Undefined)))
    ELSE [gen |-> [g EXCEPT !.state = "awaitingElement",
                            !.page = g.step.value.value.items, !.index = 0],
          settled |-> <<>>]

\* The job in which the array iterator's result, wrapped for the async
\* `yield*`, settles: `yield*` awaits that result, in a later job.
listPagingAll_element(g) ==
    [gen |-> [g EXCEPT !.state = "awaitingResult"], settled |-> <<>>]

\* The job that gives `yield* page` the array iterator's result, in the
\* listPagingAll generator g, which is serving the oldest call queued on
\* it.  With an element left, the element is yielded and settles that call;
\* the generator then stops (suspendedYield) when no call is queued, and
\* otherwise goes on with the next call, for which it asks the array's
\* iterator again and awaits.  With no element left `yield*` is over and
\* `for await` calls next() on the page generator, which ends and settles
\* it with done; `for await` awaits that.
yieldStar(g, resourceGroupName, options) ==
    IF g.index < Len(g.page)
    THEN LET y == [g EXCEPT !.index = @ + 1, !.yielded = Append(@, g.page[g.index + 1]),
                            !.waiting = Tail(@)]
             settled == << Settlement("next",
                                      Normal(IterResult(FALSE, g.page[g.index + 1]))) >>
         IN IF y.waiting = <<>>
            THEN [gen |-> [y EXCEPT !.state = "suspendedYield"], settled |-> settled]
            ELSE [gen |-> [y EXCEPT !.state = "awaitingElement", !.nexts = @ + 1],
                  settled |-> settled]
    ELSE LET r == listPagingPage_call(g.inner, NextCall, resourceGroupName, options)
         IN [gen |-> forAwait([g EXCEPT !.inner = r.gen], r.settled[1]),
             settled |-> <<>>]

\* next() called on the listPagingAll generator g: it joins the queue; a
\* running generator takes it up later.  From the start the `for await`
\* creates the page generator and calls its next(), which sends the
\* request, and awaits it; after a yield the generator goes on with
\* `yield* page`, which asks the array's iterator for an element and
\* awaits.
listPagingAll_call(g, resourceGroupName, options) ==
    LET q == [g EXCEPT !.waiting = Append(@, NextCall)]
    IN CASE g.state \in { "awaiting", "forAwaitSettled", "awaitingElement",
                          "awaitingResult" } -> [gen |-> q, settled |-> <<>>]
         [] g.state = "suspendedStart" ->
               [gen |-> [q EXCEPT !.state = "awaiting", !.nexts = @ + 1,
                                  !.inner = listPagingPage_call(NewPageGenerator, NextCall,
                                                                resourceGroupName,
                                                                options).gen],
                settled |-> <<>>]
         [] g.state = "suspendedYield" ->
               [gen |-> [q EXCEPT !.state = "awaitingElement", !.nexts = @ + 1],
                settled |-> <<>>]
         [] g.state = "completed" -> drainQueue(q, "", <<>>)

\* The request of the page generator of g settles.
listPagingAll_respond(g, response) ==
    [gen |-> [g EXCEPT !.inner = listPagingPage_respond(g.inner, response).gen],
     settled |-> <<>>]

\* A job of the page generator of g, whose next() the `for await` of g is
\* awaiting: when the job settles that next(), with the page or with the
\* error, `for await` has its result.
listPagingAll_page(g, resourceGroupName, options) ==
    LET r == listPagingPage_resumed(g.inner, resourceGroupName, options)
        h == [g EXCEPT !.inner = r.gen]
    IN [gen |-> IF r.settled = <<>> THEN h ELSE forAwait(h, r.settled[1]),
        settled |-> <<>>]

\* The job of the listPagingAll generator g, or of its page generator, at
\* the head of the microtask queue.
listPagingAll_resumed(g, resourceGroupName, options) ==
    CASE g.state = "awaiting" -> listPagingAll_page(g, resourceGroupName, options)
      [] g.state = "forAwaitSettled" -> listPagingAll_forAwait(g)
      [] g.state = "awaitingElement" -> listPagingAll_element(g)
      [] g.state = "awaitingResult" -> yieldStar(g, resourceGroupName, options)

\* A job of the page generator g is in the microtask queue.
PageDue(g) == g.state \in { "answered", "yielding", "awaitingReturn" }

\* A job of the element iterator g, or of its page generator, is in the
\* microtask queue.
AllDue(g) ==
    \/ g.state \in { "forAwaitSettled", "awaitingElement", "awaitingResult" }
    \/ g.state = "awaiting" /\ PageDue(g.inner)

\* The microtask queue after a call or the settling of a request that
\* found the generator id with no job (due = FALSE) or with one: a job the
\* step made due joins the queue at the end.
Enqueued(jobs, id, due, dueAfter) ==
    IF ~due /\ dueAfter THEN Append(jobs, id) ELSE jobs

\* The microtask queue after its first job, of the generator id, has run:
\* the job it made due, if any, joins the queue at the end.
Dequeued(jobs, id, dueAfter) ==
    IF dueAfter THEN Append(Tail(jobs), id) ELSE Tail(jobs)

\* What a step leaves as the last completion: the completion of the last
\* call it settled, with all the completions of the step in order.
Settlements(settled) ==
    LET last == settled[Len(settled)]
    IN [op |-> last.op, type |-> last.type, value |-> last.value, settled |-> settled]

\* What a call of op leaves: the completions of the step, or, when the step
\* settled nothing, the call unsettled.
Called(op, settled) ==
    IF settled = <<>>
    THEN [op |-> op, type |-> "pending", value |-> Undefined, settled |-> <<>>]
    ELSE Settlements(settled)

\* What a job, or the settling of a request, leaves: the completions of the
\* step, or, when the step settled no call, none.
Ran(settled) ==
    IF settled = <<>>
    THEN [op |-> "job", type |-> "pending", value |-> Undefined, settled |-> <<>>]
    ELSE Settlements(settled)

\* `settings?.maxPageSize`.
maxPageSizeOf(settings) ==
    IF settings = Undefined THEN Undefined ELSE settings.maxPageSize

\* byPage without the test of maxPageSize.
byPage_ignoresMaxPageSize(settings) == Normal(NewPageGenerator)

\* byPage(settings) of the object list() returns: the page generator, not
\* yet started, or the error.
byPage(settings) ==
    IF ToBoolean(maxPageSizeOf(settings))
    THEN Throw(MaxPageSizeNotSupported)
    ELSE Normal(NewPageGenerator)

\* Inputs.
ResourceGroupNames == { Str(<<"r","g","1">>) }

ListOptions == { [tag |-> "options", abortSignal |-> Undefined] }

PageSettings(maxPageSize, continuationToken) ==
    [tag |-> "PageSettings", maxPageSize |-> maxPageSize,
     continuationToken |-> continuationToken]

PageSettingsInputs ==
    { Undefined,
      PageSettings(Undefined, Undefined),
      PageSettings(Undefined, Str(<<"t","1">>)),
      PageSettings(Num(0), Undefined),
      PageSettings(Num(5), Undefined),
      PageSettings(Num(-1), Undefined),
      PageSettings(NaN, Undefined) }

\* How the list request settles: a response with or without value, or a
\* failure of the request.
ListResponses ==
    { Normal([tag |-> "ListApplyUpdate", value |-> v]) :
        v \in { Undefined, Array(<<>>), Array(<<ApplyUpdate("a")>>),
                Array(<<ApplyUpdate("a"), ApplyUpdate("b")>>) } }
    \cup { Throw(Error("request failed")) }

\* How the request of a page iterator settles: a response with a value, or
\* a failure.  Its generator is the one the element iterator runs, which
\* meets every response of ListResponses there.
PageResponses ==
    { Normal([tag |-> "ListApplyUpdate", value |-> Array(<<ApplyUpdate("a")>>)]),
      Throw(Error("request failed")) }

\* applyUpdateForResourceGroup.list(resourceGroupName, options).
List ==
    /\ pager = Undefined
    /\ \E resourceGroupName \in ResourceGroupNames, options \in ListOptions :
          pager' = [tag |-> "PagedAsyncIterableIterator",
                    resourceGroupName |-> resourceGroupName, options |-> options,
                    iter |-> NewAllGenerator, pages |-> <<>>, jobs |-> <<>>]
    /\ ret' = Completion("list", Normal(Undefined))
    /\ UNCHANGED <<ctor, sas, heap, outs, frames, initialResponse, calls, polling, log>>

\* The calls made on the iterators of the list() result p that have not
\* settled.
RECURSIVE Unsettled(_)
Unsettled(gens) ==
    IF gens = <<>> THEN 0 ELSE Len(Head(gens).waiting) + Unsettled(Tail(gens))

PendingCalls(p) == Len(p.iter.waiting) + Unsettled(p.pages)

\* The values the caller passes to return() and throw().
ReturnValues == { Str(<<"x">>) }

ThrowValues == { Error("stop") }

\* The generators in the microtask queue: the element iterator, with its
\* page generator, is 0; the page iterator k that byPage returned is k.
AllJob == 0

\* next() of the object list() returned: iter.next().
IterNext ==
    /\ pager # Undefined
    /\ PendingCalls(pager) < MaxPending
    /\ LET r == listPagingAll_call(pager.iter, pager.resourceGroupName, pager.options)
       IN /\ pager' = [pager EXCEPT !.iter = r.gen,
                                    !.jobs = Enqueued(@, AllJob, AllDue(pager.iter),
                                                      AllDue(r.gen))]
          /\ ret' = Called("next", r.settled)
    /\ UNCHANGED <<ctor, sas, heap, outs, frames, initialResponse, calls, polling, log>>

\* The request sent for the object's iterator settles; the page generator
\* goes on in a job.
IterRespond ==
    /\ pager # Undefined
    /\ pager.iter.state = "awaiting"
    /\ pager.iter.inner.state = "awaiting"
    /\ \E response \in ListResponses :
          LET r == listPagingAll_respond(pager.iter, response)
          IN /\ pager' = [pager EXCEPT !.iter = r.gen,
                                       !.jobs = Enqueued(@, AllJob, AllDue(pager.iter),
                                                         AllDue(r.gen))]
             /\ ret' = Ran(r.settled)
    /\ UNCHANGED <<ctor, sas, heap, outs, frames, initialResponse, calls, polling, log>>

\* The job at the head of the microtask queue is of the object's iterator
\* or of its page generator, and runs.
IterResume ==
    /\ pager # Undefined
    /\ pager.jobs # <<>>
    /\ Head(pager.jobs) = AllJob
    /\ LET r == listPagingAll_resumed(pager.iter, pager.resourceGroupName, pager.options)
       IN /\ pager' = [pager EXCEPT !.iter = r.gen,
                                    !.jobs = Dequeued(@, AllJob, AllDue(r.gen))]
          /\ ret' = Ran(r.settled)
    /\ UNCHANGED <<ctor, sas, heap, outs, frames, initialResponse, calls, polling, log>>

\* byPage(settings) of the object list() returned; the completion keeps
\* the settings the call was made with.
ByPage ==
    /\ pager # Undefined
    /\ Len(pager.pages) < MaxPageIterators
    /\ \E settings \in PageSettingsInputs :
          LET r == byPage(settings)
          IN /\ pager' = [pager EXCEPT !.pages = IF r.type = "normal"
                                                 THEN Append(@, r.value) ELSE @]
             /\ ret' = [op |-> "byPage", type |-> r.type,
                        value |-> IF r.type = "normal" THEN Undefined ELSE r.value,
                        settings |-> settings]
    /\ UNCHANGED <<ctor, sas, heap, outs, frames, initialResponse, calls, polling, log>>

\* A call c, named op, on the page iterator k: byPage returned the
\* generator itself, so next, return and throw can be called on it.
PageCall(k, c, op) ==
    /\ PendingCalls(pager) < MaxPending
    /\ LET r == listPagingPage_call(pager.pages[k], c, pager.resourceGroupName,
                                    pager.options)
       IN /\ pager' = [pager EXCEPT !.pages[k] = r.gen,
                                    !.jobs = Enqueued(@, k, PageDue(pager.pages[k]),
                                                      PageDue(r.gen))]
          /\ ret' = Called(op, r.settled)
    /\ UNCHANGED <<ctor, sas, heap, outs, frames, initialResponse, calls, polling, log>>

PageNext ==
    /\ pager # Undefined
    /\ \E k \in 1..Len(pager.pages) : PageCall(k, NextCall, "page.next")

PageReturn ==
    /\ pager # Undefined
    /\ \E k \in 1..Len(pager.pages), v \in ReturnValues :
          PageCall(k, ReturnCall(v), "page.return")

PageThrow ==
    /\ pager # Undefined
    /\ \E k \in 1..Len(pager.pages), e \in ThrowValues :
          PageCall(k, ThrowCall(e), "page.throw")

\* The request of a page iterator settles; the generator goes on in a job.
PageRespond ==
    /\ pager # Undefined
    /\ \E k \in 1..Len(pager.pages), response \in PageResponses :
          /\ pager.pages[k].state = "awaiting"
          /\ LET r == listPagingPage_respond(pager.pages[k], response)
             IN /\ pager' = [pager EXCEPT !.pages[k] = r.gen,
                                          !.jobs = Enqueued(@, k, PageDue(pager.pages[k]),
                                                            PageDue(r.gen))]
                /\ ret' = Ran(r.settled)
    /\ UNCHANGED <<ctor, sas, heap, outs, frames, initialResponse, calls, polling, log>>

\* The job at the head of the microtask queue is of a page iterator, and
\* runs.
PageResume ==
    /\ pager # Undefined
    /\ pager.jobs # <<>>
    /\ Head(pager.jobs) # AllJob
    /\ LET k == Head(pager.jobs)
           r == listPagingPage_resumed(pager.pages[k], pager.resourceGroupName,
                                       pager.options)
       IN /\ pager' = [pager EXCEPT !.pages[k] = r.gen,
                                    !.jobs = Dequeued(@, k, PageDue(r.gen))]
          /\ ret' = Ran(r.settled)
    /\ UNCHANGED <<ctor, sas, heap, outs, frames, initialResponse, calls, polling, log>>

NextPaging ==
    \/ List
    \/ IterNext
    \/ IterRespond
    \/ IterResume
    \/ ByPage
    \/ PageNext
    \/ PageReturn
    \/ PageThrow
    \/ PageRespond
    \/ PageResume

SpecPaging == Init /\ [][NextPaging]_vars

\* The requests sent so far by the iterators of the list() result.
RequestsSent(p) ==
    IF p = Undefined THEN 0
    ELSE (IF p.iter.inner = Undefined THEN 0 ELSE Len(p.iter.inner.sent))
         + (IF p.pages = <<>> THEN 0 ELSE Len(p.pages[1].sent))
         + (IF Len(p.pages) < 2 THEN 0 ELSE Len(p.pages[2].sent))

\* A step that is a call of byPage.
ByPageStep == ret'.op = "byPage" /\ (pager' # pager \/ ret' # ret)

\* C27, as claimed: byPage(settings) with a maxPageSize that is not zero
\* fails with 'maxPageSize is not supported by this operation.' before any
\* request is sent; with maxPageSize absent it returns a page iterator and
\* sends no request.
C27_NonZeroRejected ==
    [][ByPageStep =>
          LET m == maxPageSizeOf(ret'.settings)
          IN /\ RequestsSent(pager') = RequestsSent(pager)
             /\ (m # Undefined /\ m # Num(0)) =>
                   /\ ret'.type = "throw"
                   /\ ret'.value.message = "maxPageSize is not supported by this operation."
             /\ m = Undefined =>
                   /\ ret'.type = "normal"
                   /\ Len(pager'.pages) = Len(pager.pages) + 1]_vars

\* C27, amended: byPage(settings) fails with 'maxPageSize is not supported
\* by this operation.' exactly when maxPageSize is a number other than 0
\* and NaN (NaN, like 0 and an absent value, is accepted); otherwise it
\* returns a new page iterator that has run nothing.  Neither case sends a
\* request: the first request of a page iterator is sent by its next().
C27_TruthyRejected ==
    [][ByPageStep =>
          LET m == maxPageSizeOf(ret'.settings)
          IN /\ RequestsSent(pager') = RequestsSent(pager)
             /\ IF m # Undefined /\ m # Num(0) /\ m # NaN
                THEN /\ ret'.type = "throw"
                     /\ ret'.value.message = "maxPageSize is not supported by this operation."
                     /\ pager'.pages = pager.pages
                ELSE /\ ret'.type = "normal"
                     /\ Len(pager'.pages) = Len(pager.pages) + 1
                     /\ pager'.pages[Len(pager'.pages)].state = "suspendedStart"
                     /\ pager'.pages[Len(pager'.pages)].sent = <<>>]_vars

\* C27's case: byPage({ maxPageSize: 5 }) has thrown the error, and no
\* request has been sent.
C27_Witness ==
    /\ ret.op = "byPage"
    /\ ret.type = "throw"
    /\ ret.value.message = "maxPageSize is not supported by this operation."
    /\ ret.settings # Undefined
    /\ ret.settings.maxPageSize = Num(5)
    /\ RequestsSent(pager) = 0

\* The elements of a list response: those of its value, none without value.
ItemsOf(response) ==
    IF response.value.value = Undefined THEN <<>> ELSE response.value.value.items

\* A generator has got the answer to its request.
Answered(g) == g.received # Undefined

\* A job of the generator id is in the microtask queue.
Queued(jobs, id) == \E i \in 1..Len(jobs) : jobs[i] = id

\* C28: an iterator sends one list request, with its first next(), and
\* never a second.  The element iterator of list(), once its request has
\* succeeded, yields the elements of the response's value in order, nothing
\* when value is absent, and the next() after the last element ends it; a
\* page iterator advanced by next() alone yields one page, the whole value,
\* and is ended by its second next().  An iterator that has ended answers
\* next() with done, and a call is left unsettled only by a generator that
\* is running: waiting for its request or stopped at an await whose job is
\* in the microtask queue.
C28_OneRequestThenExhausted ==
    pager # Undefined =>
        /\ LET it == pager.iter
               running == { "awaiting", "forAwaitSettled", "awaitingElement",
                            "awaitingResult" }
           IN IF it.inner = Undefined
              THEN it.state = "suspendedStart" /\ it.yielded = <<>>
              ELSE /\ Len(it.inner.sent) = 1
                   /\ it.inner.state = "awaiting" <=> ~Answered(it.inner)
                   /\ ~Answered(it.inner) => it.state = "awaiting"
                   /\ it.waiting # <<>> <=> it.state \in running
                   /\ it.waiting # <<>> <=>
                         (it.inner.state = "awaiting" \/ Queued(pager.jobs, AllJob))
                   /\ (Answered(it.inner) /\ it.inner.received.type = "normal") =>
                         LET items == ItemsOf(it.inner.received)
                         IN /\ Len(it.yielded) <= Len(items)
                            /\ it.yielded = SubSeq(items, 1, Len(it.yielded))
                            /\ it.nexts <= Len(items) + 1
                            /\ it.state = "suspendedYield" => it.nexts = Len(it.yielded)
                            /\ it.state \in running => it.nexts = Len(it.yielded) + 1
                            /\ it.state = "completed" =>
                                  (it.yielded = items /\ it.nexts = Len(items) + 1)
                            /\ it.nexts > Len(items) =>
                                  /\ it.yielded = items
                                  /\ it.state \in running \cup { "completed" }
                   /\ (Answered(it.inner) /\ it.inner.received.type = "throw") =>
                         /\ it.state \in { "awaiting", "forAwaitSettled", "completed" }
                         /\ it.yielded = <<>>
                         /\ it.nexts = 1
        /\ \A k \in 1..Len(pager.pages) :
              LET p == pager.pages[k]
              IN /\ Len(p.sent) <= 1
                 /\ Len(p.sent) = p.nexts \/ p.nexts = 2
                 /\ Len(p.yielded) <= 1
                 /\ p.state = "awaiting" <=> (Len(p.sent) = 1 /\ ~Answered(p))
                 /\ p.waiting # <<>> <=>
                       p.state \in { "awaiting", "answered", "yielding", "awaitingReturn" }
                 /\ p.waiting # <<>> <=> (p.state = "awaiting" \/ Queued(pager.jobs, k))
                 /\ (Answered(p) /\ p.received.type = "normal") =>
                       /\ p.yielded = IF p.state \in { "answered", "yielding" }
                                      THEN <<>>
                                      ELSE << Array(ItemsOf(p.received)) >>
                       /\ ~p.closed =>
                             (p.nexts = 2 <=> p.state \in { "completed", "awaitingReturn" })
                 /\ ~p.closed =>
                       Len(p.sent) = (IF p.state = "suspendedStart" THEN 0 ELSE 1)
        /\ (ret.op = "next" /\ pager.iter.state = "completed" /\ ret.type = "normal")
              => ret.value.done

\* C28's case: the element iterator has yielded the two elements of the
\* response in order and ended at the third next(), with one request sent;
\* a page iterator, advanced by next() alone, has yielded its one page and
\* ended at its second next().
C28_Witness ==
    /\ pager # Undefined
    /\ pager.iter.state = "completed"
    /\ pager.iter.yielded = << ApplyUpdate("a"), ApplyUpdate("b") >>
    /\ pager.iter.nexts = 3
    /\ Len(pager.iter.inner.sent) = 1
    /\ Len(pager.pages) = 1
    /\ pager.pages[1].state = "completed"
    /\ ~pager.pages[1].closed
    /\ pager.pages[1].nexts = 2
    /\ Len(pager.pages[1].yielded) = 1
    /\ Len(pager.pages[1].sent) = 1
====
